---- MODULE Spec2Model ----
(***************************************************************************)
(* A model of the value types of js-toolkit: CFNumericRange                *)
(* (packages/cf-numeric-range), CGPoint (packages/cg-point), CGSize and    *)
(* CGRect (packages/cg-rect).                                              *)
(*                                                                         *)
(* Numbers.  A JavaScript number is modelled as a record [k, v]:           *)
(*   k = "fin": the finite number v / Scale (v an integer, so every finite *)
(*              number of the model is a decimal with two fraction digits),*)
(*   k = "nan": NaN,                                                       *)
(*   k = "inf": +Infinity (v = 1) or -Infinity (v = -1).                   *)
(* Arithmetic on finite numbers is exact (the numbers of the specification *)
(* are reals); a result beyond MaxNum overflows to an infinity, as a       *)
(* double does beyond Number.MAX_VALUE.  Negative zero is not told apart   *)
(* from zero.                                                              *)
(*                                                                         *)
(* Strings.  A string is a sequence of one-character strings, so that      *)
(* formatting (toString, toFixed) and parsing (parseFloat, the regular     *)
(* expression of CFNumericRange.parse) are computed character by character.*)
(***************************************************************************)
EXTENDS Integers, Sequences, FiniteSets, TLC

(* ----------------------------------------------------------------------- *)
(* Bounds of the model                                                     *)
(* ----------------------------------------------------------------------- *)

\* Fixed-point resolution: the finite number n is held as the integer n * Scale.
Scale == 10 * 10

\* Largest magnitude (in units of 1/Scale) of a finite number; beyond it: Infinity.
MaxNum == 30000

(* ----------------------------------------------------------------------- *)
(* JavaScript numbers                                                      *)
(* ----------------------------------------------------------------------- *)

Fin(v) == [k |-> "fin", v |-> v]

NaN == [k |-> "nan", v |-> 0]

PInf == [k |-> "inf", v |-> 1]

NInf == [k |-> "inf", v |-> -1]

\* A whole number n as a model number.
Int2Num(n) == Fin(n * Scale)

IsNaN(a) == a.k = "nan"

IsFin(a) == a.k = "fin"

\* The result of an exact computation, overflowing to an infinity.
Ovf(v) == IF v > MaxNum THEN PInf ELSE IF v < -MaxNum THEN NInf ELSE Fin(v)

\* Position of a non-NaN number on the extended real line.
Ord(a) == IF a.k = "inf" THEN a.v * (MaxNum + 1) ELSE a.v

\* a < b, a <= b, a > b, a >= b: false whenever an operand is NaN.
NLt(a, b) == ~IsNaN(a) /\ ~IsNaN(b) /\ Ord(a) < Ord(b)

NLe(a, b) == ~IsNaN(a) /\ ~IsNaN(b) /\ Ord(a) <= Ord(b)

NGt(a, b) == NLt(b, a)

NGe(a, b) == NLe(b, a)

\* -a
NNeg(a) == IF IsNaN(a) THEN NaN ELSE [k |-> a.k, v |-> -a.v]

\* a + b
NAdd(a, b) ==
  IF IsNaN(a) \/ IsNaN(b) THEN NaN
  ELSE IF a.k = "inf" /\ b.k = "inf" THEN (IF a.v = b.v THEN a ELSE NaN)
  ELSE IF a.k = "inf" THEN a
  ELSE IF b.k = "inf" THEN b
  ELSE Ovf(a.v + b.v)

\* a - b
NSub(a, b) == NAdd(a, NNeg(b))

Sign(n) == IF n > 0 THEN 1 ELSE IF n < 0 THEN -1 ELSE 0

Abs(n) == IF n < 0 THEN -n ELSE n

\* Nearest integer to p / q (q > 0), a tie going towards +Infinity.
RoundQuot(p, q) == (2 * p + q) \div (2 * q)

\* a * b; a finite product is rounded to the nearest representable number.
NMul(a, b) ==
  IF IsNaN(a) \/ IsNaN(b) THEN NaN
  ELSE IF a.k = "inf" \/ b.k = "inf"
       THEN (IF Sign(a.v) * Sign(b.v) = 0 THEN NaN
             ELSE [k |-> "inf", v |-> Sign(a.v) * Sign(b.v)])
  ELSE Ovf(RoundQuot(a.v * b.v, Scale))

\* Math.min(a, b) and Math.max(a, b): NaN when an argument is NaN.
MathMin(a, b) == IF IsNaN(a) \/ IsNaN(b) THEN NaN ELSE IF Ord(a) <= Ord(b) THEN a ELSE b

MathMax(a, b) == IF IsNaN(a) \/ IsNaN(b) THEN NaN ELSE IF Ord(a) >= Ord(b) THEN a ELSE b

\* Math.round(a): the nearest integer, a tie going towards +Infinity.
MathRound(a) == IF IsFin(a) THEN Fin(RoundQuot(a.v, Scale) * Scale) ELSE a

\* Math.round(a / b) computed on the exact quotient.
MathRoundDiv(a, b) ==
  IF IsNaN(a) \/ IsNaN(b) THEN NaN
  ELSE IF a.k = "inf" THEN (IF b.k = "inf" THEN NaN
                            ELSE [k |-> "inf", v |-> a.v * (IF b.v < 0 THEN -1 ELSE 1)])
  ELSE IF b.k = "inf" THEN Fin(0)
  ELSE IF b.v = 0 THEN (IF a.v = 0 THEN NaN ELSE [k |-> "inf", v |-> Sign(a.v)])
  ELSE IF b.v > 0 THEN Ovf(RoundQuot(a.v, b.v) * Scale)
  ELSE Ovf(RoundQuot(-a.v, -b.v) * Scale)

(* ----------------------------------------------------------------------- *)
(* Optional values: undefined is <<>>, a defined value x is <<x>>          *)
(* ----------------------------------------------------------------------- *)

Undefined == <<>>

Some(x) == <<x>>

\* The destructuring default `{ f = d }` and the operator `f ?? d`.
OrDefault(f, d) == IF f = Undefined THEN d ELSE f[1]

(* ----------------------------------------------------------------------- *)
(* Strings, formatting and parsing                                         *)
(* ----------------------------------------------------------------------- *)

Digits == <<"0", "1", "2", "3", "4", "5", "6", "7", "8", "9">>

IsDigit(c) == \E d \in 1..Len(Digits) : Digits[d] = c

DigitVal(c) == (CHOOSE d \in 1..Len(Digits) : Digits[d] = c) - 1

\* The letters of the modelled alphabet; with the digits and "_" they are
\* the word characters (\w) of a regular expression.
Letters == {"a", "b", "c", "e", "E", "f", "i", "n", "t", "y", "I", "N", "p", "x"}

IsWordChar(c) == IsDigit(c) \/ c = "_" \/ c \in Letters

StrNaN == <<"N", "a", "N">>

StrInfinity == <<"I", "n", "f", "i", "n", "i", "t", "y">>

RECURSIVE Pow10(_)
Pow10(n) == IF n <= 0 THEN 1 ELSE 10 * Pow10(n - 1)

RECURSIVE NatToStr(_)
\* The decimal digits of a natural number.
NatToStr(n) ==
  IF n < 10 THEN <<Digits[n + 1]>>
  ELSE NatToStr(n \div 10) \o <<Digits[(n % 10) + 1]>>

RECURSIVE FracToStr(_, _)
\* The fraction digits of f / unit (0 <= f < unit), without trailing zeros.
FracToStr(f, unit) ==
  IF f = 0 \/ unit < 10 THEN <<>>
  ELSE <<Digits[(f \div (unit \div 10)) + 1]>> \o FracToStr(f % (unit \div 10), unit \div 10)

RECURSIVE FracToFixed(_, _, _)
\* Exactly d fraction digits of f / unit, padded with zeros.
FracToFixed(f, unit, d) ==
  IF d = 0 THEN <<>>
  ELSE IF unit < 10 THEN <<"0">> \o FracToFixed(0, unit, d - 1)
  ELSE <<Digits[(f \div (unit \div 10)) + 1]>>
         \o FracToFixed(f % (unit \div 10), unit \div 10, d - 1)

\* Number.prototype.toString() (radix 10).
NumToString(a) ==
  IF IsNaN(a) THEN StrNaN
  ELSE IF a.k = "inf" THEN (IF a.v < 0 THEN <<"-">> ELSE <<>>) \o StrInfinity
  ELSE (IF a.v < 0 THEN <<"-">> ELSE <<>>)
         \o NatToStr(Abs(a.v) \div Scale)
         \o (IF Abs(a.v) % Scale = 0 THEN <<>>
             ELSE <<".">> \o FracToStr(Abs(a.v) % Scale, Scale))

RECURSIVE UnitOf(_, _)
UnitOf(u, d) == IF d <= 0 \/ u = 0 THEN u ELSE UnitOf(u \div 10, d - 1)

\* 10^-d in units of 1/Scale; 0 when 10^-d is finer than the resolution.
RoundUnit(d) == UnitOf(Scale, d)

\* The magnitude m (in units of 1/Scale) rounded to d fraction digits, a tie
\* going to the larger magnitude.
RoundMag(m, d) ==
  IF RoundUnit(d) <= 1 THEN m ELSE RoundQuot(m, RoundUnit(d)) * RoundUnit(d)

\* Number.prototype.toFixed(d), d >= 0.
NumToFixed(a, d) ==
  IF ~IsFin(a) THEN NumToString(a)
  ELSE LET m == RoundMag(Abs(a.v), d)
       IN (IF a.v < 0 THEN <<"-">> ELSE <<>>)
            \o NatToStr(m \div Scale)
            \o (IF d = 0 THEN <<>> ELSE <<".">> \o FracToFixed(m % Scale, Scale, d))

RECURSIVE SkipSpaces(_, _)
\* The first position from i on that holds no white space.
SkipSpaces(s, i) == IF i <= Len(s) /\ s[i] = " " THEN SkipSpaces(s, i + 1) ELSE i

RECURSIVE DigitEnd(_, _)
\* The first position from i on that holds no digit.
DigitEnd(s, i) == IF i <= Len(s) /\ IsDigit(s[i]) THEN DigitEnd(s, i + 1) ELSE i

RECURSIVE StrNat(_)
\* The natural number a sequence of digits denotes (0 for no digit).
StrNat(ds) ==
  IF ds = <<>> THEN 0
  ELSE StrNat(SubSeq(ds, 1, Len(ds) - 1)) * 10 + DigitVal(ds[Len(ds)])

\* Whether w occurs in s at position i.
OccursAt(w, s, i) == i + Len(w) - 1 <= Len(s) /\ SubSeq(s, i, i + Len(w) - 1) = w

RECURSIVE ScaleUp(_, _)
\* n * 10^e (e >= 0), no further than the first value beyond MaxNum.
ScaleUp(n, e) == IF e <= 0 \/ n > MaxNum THEN n ELSE ScaleUp(n * 10, e - 1)

\* The value of a decimal literal: digs * 10^e10, in units of 1/Scale.
Magnitude(digs, e10) ==
  IF e10 >= 0 THEN ScaleUp(digs * Scale, e10) ELSE RoundQuot(digs * Scale, Pow10(-e10))

\* The digits of an exponent from position j on (0 for none).
ExpDigits(s, j) == StrNat(SubSeq(s, j, DigitEnd(s, j) - 1))

\* The exponent part that starts at position i ("e" or "E", an optional
\* sign, digits); 0 when there is none.
Exponent(s, i) ==
  IF ~(i <= Len(s) /\ s[i] \in {"e", "E"}) THEN 0
  ELSE IF i + 1 <= Len(s) /\ s[i + 1] = "-" THEN -ExpDigits(s, i + 2)
  ELSE IF i + 1 <= Len(s) /\ s[i + 1] = "+" THEN ExpDigits(s, i + 2)
  ELSE ExpDigits(s, i + 1)

\* The literal with sign sgn, integer digits intDs, fraction digits fracDs
\* and exponent expo.
ParseLiteral(sgn, intDs, fracDs, expo) ==
  IF Len(intDs) + Len(fracDs) = 0 THEN NaN
  ELSE Ovf(sgn * Magnitude(StrNat(intDs \o fracDs), expo - Len(fracDs)))

\* The end of the fraction part that may start at position i (a dot, digits).
FracEnd(s, i) == IF i <= Len(s) /\ s[i] = "." THEN DigitEnd(s, i + 1) ELSE i

\* The digits of s from i1 to i2 - 1 are the integer part, a fraction part
\* runs up to i3 - 1.
ParseParts(s, sgn, i1, i2, i3) ==
  ParseLiteral(sgn, SubSeq(s, i1, i2 - 1), SubSeq(s, i2 + 1, i3 - 1), Exponent(s, i3))

\* The unsigned literal of s from position i on.
ParseUnsigned(s, sgn, i) ==
  IF OccursAt(StrInfinity, s, i) THEN [k |-> "inf", v |-> sgn]
  ELSE ParseParts(s, sgn, i, DigitEnd(s, i), FracEnd(s, DigitEnd(s, i)))

\* The literal of s from position i on, after its optional sign.
ParseSigned(s, i) ==
  ParseUnsigned(s, IF i <= Len(s) /\ s[i] = "-" THEN -1 ELSE 1,
                IF i <= Len(s) /\ s[i] \in {"+", "-"} THEN i + 1 ELSE i)

\* parseFloat(s): the number denoted by the longest prefix of s (after white
\* space) that is a decimal literal; NaN when there is none.
ParseFloat(s) == ParseSigned(s, SkipSpaces(s, 1))

(* ----------------------------------------------------------------------- *)
(* The value of a range: a number or a string                              *)
(* ----------------------------------------------------------------------- *)

NumV(a) == [t |-> "num", n |-> a, s |-> <<>>]

StrV(s) == [t |-> "str", n |-> NaN, s |-> s]

EmptyString == StrV(<<>>)

\* value.toString()
ValToString(val) == IF val.t = "num" THEN NumToString(val.n) ELSE val.s

\* The characters the expression /[^\w.-]+/g leaves in place.
KeepChar(c) == IsWordChar(c) \/ c = "." \/ c = "-"

\* CFNumericRange.parse
Parse(val) == ParseFloat(SelectSeq(ValToString(val), KeepChar))

\* isNumeric of index.ts: `typeof value === "number"` already holds of every
\* number, NaN and the infinities included.
IsNumeric(a) == a.k \in {"fin", "nan", "inf"}

\* Math.round(value * 10^d) / 10^d
RoundToDecimals(a, d) ==
  IF ~IsFin(a) THEN a
  ELSE IF RoundUnit(d) <= 1 THEN a
  ELSE Ovf(RoundQuot(a.v, RoundUnit(d)) * RoundUnit(d))

RECURSIVE CountLoop(_, _)
\* The loop of countDecimals: the least p with Math.round(value * 10^p) / 10^p
\* equal to value.  (Of NaN the loop of the source never ends: NaN !== NaN.)
CountLoop(a, p) == IF RoundToDecimals(a, p) = a THEN p ELSE CountLoop(a, p + 1)

\* countDecimals
CountDecimals(a) == IF ~IsNumeric(a) THEN 0 ELSE CountLoop(a, 0)

\* `isNumeric(value) ? value : 0`
CleanNumber(a) == IF IsNumeric(a) THEN a ELSE Fin(0)

\* `decimals ? n.toFixed(decimals) : n.toString()`
FormatDecimals(n, decimals) ==
  IF decimals # Undefined /\ decimals[1] # 0
  THEN NumToFixed(n, decimals[1])
  ELSE NumToString(n)

\* toFixed(value, decimals) of index.ts; decimals is optional.
ToFixed(a, decimals) ==
  FormatDecimals(RoundToDecimals(CleanNumber(ParseFloat(NumToString(a))),
                                 OrDefault(decimals, 10)),
                 decimals)

(* ----------------------------------------------------------------------- *)
(* CFNumericRange: the objects                                             *)
(* ----------------------------------------------------------------------- *)

\* heap:  the CFNumericRange instances constructed so far, by identity
\*        (position); an instance holds min, max, value, precision, step,
\*        stepPrecision and its private `options`.  `options` is the object
\*        the constructor was called with, held by reference: [ref |-> 0,
\*        lit |-> o] is an object literal o that only the instance holds,
\*        [ref |-> j] is the instance j itself (clone passes `this`).
\* born:  for each instance, the value, step, min, max and precision it had
\*        when its constructor returned (history, not program state).
\* op:    the last operation: its name, the instance it was called on (or
\*        created), its arguments, and whether it threw.
\* nops:  the number of operations performed.
\* it:    the state of one traversal (generator object) of instance 1.
\* rect:  one CGRect, as its x, y (origin) and width, height (size).
\* point: one CGPoint.
\* gop:   the last operation on rect or point: its name, how many times in
\*        a row it has been applied, the points fromPoints was called with,
\*        and the rectangle and the point as they were created.
\* zero:  the x and y of the one object CGPoint.zero (a static field, shared
\*        by every use of it).
\* size:  one CGSize, as its width and height.
\* calc:  the last call whose result is of interest: its name, its
\*        arguments and what it returned or whether it threw.
VARIABLES heap, born, op, nops, it, rect, point, gop, zero, size, calc, mem

\* The state of the rectangle, the points, the size and the calls on them.
geo == <<rect, point, gop, zero, size, calc, mem>>

vars == <<heap, born, op, nops, it, rect, point, gop, zero, size, calc, mem>>

\* An options object: every field is optional.
Options(min, max, precision, step, value) ==
  [min |-> min, max |-> max, precision |-> precision, step |-> step, value |-> value]

NoOptions == Options(Undefined, Undefined, Undefined, Undefined, Undefined)

Lit(o) == [ref |-> 0, lit |-> o]

Ref(j) == [ref |-> j, lit |-> NoOptions]

\* An instance read as an options object (its own fields of those names).
AsOptions(r) == Options(Some(r.min), Some(r.max), r.precision, Some(r.step), Some(r.value))

\* The object this.options of instance i, as it is now.
OptionsOf(h, i) == IF h[i].options.ref = 0 THEN h[i].options.lit ELSE AsOptions(h[h[i].options.ref])

\* { ...a, ...b }
Spread(a, b) == [f \in DOMAIN a |-> IF b[f] # Undefined THEN b[f] ELSE a[f]]

DefaultMin == Int2Num(0)

DefaultMax == Int2Num(100)

DefaultStep == Int2Num(1)

DefaultValue == NumV(Int2Num(0))

\* A guard that compares the default max in place of the given one: not the
\* constructor's.
ThrowsByDefaultMax(o) == NLt(DefaultMax, OrDefault(o.min, DefaultMin))

\* The constructor's guard: `if (max < min) throw new RangeError(...)`.
ConstructorThrows(o) == NLt(OrDefault(o.max, DefaultMax), OrDefault(o.min, DefaultMin))

\* The instance the constructor builds from the options object o, keeping
\* `held` as its private options.
Construct(o, held) ==
  [min |-> OrDefault(o.min, DefaultMin),
   max |-> OrDefault(o.max, DefaultMax),
   value |-> OrDefault(o.value, DefaultValue),
   precision |-> o.precision,
   step |-> OrDefault(o.step, DefaultStep),
   stepPrecision |-> CountDecimals(OrDefault(o.step, DefaultStep)),
   options |-> held]

\* What reset() later has to restore.
Snapshot(r) == [value |-> r.value, step |-> r.step, min |-> r.min, max |-> r.max,
                precision |-> r.precision]

\* valueOf()
ValueOf(r) == Parse(r.value)

\* A percent value that is kept inside [min, max]: not what fromPercent does.
PercentValueClamped(percent, min, max) ==
  MathMin(MathMax(NAdd(NMul(NSub(max, min), percent), min), min), max)

\* fromPercent's value: (max - min) * percent + min
PercentValue(percent, min, max) == NAdd(NMul(NSub(max, min), percent), min)

\* clamp()
ClampOf(r) ==
  [r EXCEPT !.value =
     StrV(ToFixed(MathMin(MathMax(ValueOf(r), r.min), r.max), r.precision))]

\* An increment that keeps the value inside [min, max]: not what increment does.
IncrementClamped(r, arg) ==
  [r EXCEPT !.value =
     NumV(MathMin(MathMax(NAdd(ValueOf(r), OrDefault(arg, r.step)), r.min), r.max))]

\* increment(step); the argument is optional and defaults to this.step
IncrementOf(r, arg) ==
  LET step == OrDefault(arg, r.step)
  IN [r EXCEPT !.value = IF r.value = EmptyString
                         THEN NumV(Parse(NumV(step)))
                         ELSE NumV(NAdd(ValueOf(r), step))]

\* decrement(step)
DecrementOf(r, arg) ==
  LET step == OrDefault(arg, r.step)
  IN [r EXCEPT !.value = IF r.value = EmptyString
                         THEN NumV(Parse(NumV(NNeg(step))))
                         ELSE NumV(NSub(ValueOf(r), step))]

\* snapToStep()
SnapToStepOf(r) ==
  [r EXCEPT !.value =
     StrV(ToFixed(NMul(MathRoundDiv(ValueOf(r), r.step), r.step), Some(r.stepPrecision)))]

\* reset(): reads this.options as it is now; stepPrecision is not assigned.
ResetOf(r, o) ==
  [r EXCEPT !.value = OrDefault(o.value, DefaultValue),
            !.step = OrDefault(o.step, DefaultStep),
            !.min = OrDefault(o.min, DefaultMin),
            !.max = OrDefault(o.max, DefaultMax),
            !.precision = o.precision]

(* ----------------------------------------------------------------------- *)
(* CFNumericRange: the operations                                          *)
(* ----------------------------------------------------------------------- *)

\* At most MaxOps calls that change an instance are made, and (in HeapSpec)
\* at most MaxInst instances constructed.
MaxOps == 3

MaxInst == 2

\* op.num is the numeric argument of the call (optional), op.opts its options
\* argument, op.self the instance it was called on or has constructed.
Op(name, self, num, opts, threw) ==
  [name |-> name, self |-> self, num |-> num, opts |-> opts, threw |-> threw]

\* `new CFNumericRange(o)` where the instance keeps `held` as its options:
\* either the new instance is added, or the constructor throws and nothing is.
Allocate(name, num, args, o, held) ==
  /\ UNCHANGED <<nops, it, geo>>
  /\ IF ConstructorThrows(o)
     THEN /\ UNCHANGED <<heap, born>>
          /\ op' = Op(name, 0, num, args, TRUE)
     ELSE /\ heap' = Append(heap, Construct(o, held))
          /\ born' = Append(born, Snapshot(Construct(o, held)))
          /\ op' = Op(name, Len(heap) + 1, num, args, FALSE)

\* new CFNumericRange(options)
New(o) == Allocate("new", Undefined, o, o, Lit(o))

\* CFNumericRange.fromTuple([min, max])
FromTuple(min, max) ==
  LET o == [NoOptions EXCEPT !.min = Some(min), !.max = Some(max)]
  IN Allocate("fromTuple", Undefined, o, o, Lit(o))

\* CFNumericRange.create(min, max, value?)
Create(min, max, value) ==
  LET o == [NoOptions EXCEPT !.min = Some(min), !.max = Some(max), !.value = value]
  IN Allocate("create", Undefined, o, o, Lit(o))

\* CFNumericRange.fromPercent(percent, { min?, max? })
FromPercent(percent, options) ==
  LET min == OrDefault(options.min, DefaultMin)
      max == OrDefault(options.max, DefaultMax)
      value == PercentValue(percent, min, max)
      o == [NoOptions EXCEPT !.min = Some(min), !.max = Some(max), !.value = Some(NumV(value))]
  IN Allocate("fromPercent", Some(percent), options, o, Lit(o))

\* The options of entry i of fromValues: bounded by the neighbouring values.
ValuesEntry(values, min, max, i) ==
  [NoOptions EXCEPT !.min = Some(IF i > 1 THEN values[i - 1] ELSE min),
                    !.max = Some(IF i < Len(values) THEN values[i + 1] ELSE max),
                    !.value = Some(NumV(values[i]))]

\* CFNumericRange.fromValues({ values, min, max }): one instance per value;
\* when a constructor throws, the call throws and returns nothing.
FromValues(values, min, max) ==
  LET made == [i \in 1..Len(values) |->
                 Construct(ValuesEntry(values, min, max, i),
                           Lit(ValuesEntry(values, min, max, i)))]
      args == [NoOptions EXCEPT !.min = Some(min), !.max = Some(max)]
  IN /\ UNCHANGED <<nops, it, geo>>
     /\ IF \E i \in 1..Len(values) : ConstructorThrows(ValuesEntry(values, min, max, i))
        THEN /\ UNCHANGED <<heap, born>>
             /\ op' = Op("fromValues", 0, Undefined, args, TRUE)
        ELSE /\ heap' = heap \o made
             /\ born' = born \o [i \in 1..Len(values) |-> Snapshot(made[i])]
             /\ op' = Op("fromValues", Len(heap) + 1, Undefined, args, FALSE)

\* range.clone(): `new CFNumericRange(this)`
Clone(i) == Allocate("clone", Undefined, NoOptions, AsOptions(heap[i]), Ref(i))

\* range.withOptions(o): `new CFNumericRange({ ...this.options, ...o })`
WithOptions(i, o) ==
  LET merged == Spread(OptionsOf(heap, i), o)
  IN Allocate("withOptions", Undefined, o, merged, Lit(merged))

\* A call that changes instance i alone and returns it.
Mutate(name, i, num, r) ==
  /\ nops < MaxOps
  /\ nops' = nops + 1
  /\ heap' = [heap EXCEPT ![i] = r]
  /\ op' = Op(name, i, num, NoOptions, FALSE)
  /\ UNCHANGED <<born, it, geo>>

SetValue(i, value) == Mutate("setValue", i, Undefined, [heap[i] EXCEPT !.value = value])

SetStep(i, step) == Mutate("setStep", i, Some(step), [heap[i] EXCEPT !.step = step])

Increment(i, arg) == Mutate("increment", i, arg, IncrementOf(heap[i], arg))

Decrement(i, arg) == Mutate("decrement", i, arg, DecrementOf(heap[i], arg))

Clamp(i) == Mutate("clamp", i, Undefined, ClampOf(heap[i]))

SnapToStep(i) == Mutate("snapToStep", i, Undefined, SnapToStepOf(heap[i]))

Reset(i) == Mutate("reset", i, Undefined, ResetOf(heap[i], OptionsOf(heap, i)))

(* ----------------------------------------------------------------------- *)
(* CFNumericRange: one instance, with the inputs it is tried with          *)
(* ----------------------------------------------------------------------- *)

Half == Fin(Scale \div 2)

Quarter == Fin(Scale \div 4)

\* min: unset, 2.5.  max: unset, 1, 2.5.
MinInputs == {Undefined, Some(NMul(Int2Num(5), Half))}

MaxInputs == {Undefined, Some(Int2Num(1)), Some(NMul(Int2Num(5), Half))}

\* precision: unset, 0, 1
PrecisionInputs == {Undefined, Some(0), Some(1)}

\* The constructor's step: unset, 0.5.  Its value: unset, 3, "abc", "".
CtorStepInputs == {Undefined, Some(Half)}

CtorValueInputs == {Undefined, Some(NumV(Int2Num(3))), Some(StrV(<<"a", "b", "c">>)),
                    Some(EmptyString)}

\* setStep's step: 0.5, 2, 0, -1.  The step of increment and decrement:
\* unset, 0.5, -1.
StepInputs == {Half, Int2Num(2), Int2Num(0), Int2Num(-1)}

ArgInputs == {Undefined, Some(Half), Some(Int2Num(-1))}

\* setValue's value: the number 1.25, the strings "", "1.5" and "$ 7"
ValueInputs ==
  {NumV(NMul(Int2Num(5), Quarter)), EmptyString, StrV(<<"1", ".", "5">>),
   StrV(<<"$", " ", "7">>)}

\* percent: -0.5, 0, 0.5, 1.5
PercentInputs == {NNeg(Half), Int2Num(0), Half, NMul(Int2Num(3), Half)}

OptionInputs ==
  {Options(mn, mx, pr, st, va) :
     mn \in MinInputs, mx \in MaxInputs, pr \in PrecisionInputs,
     st \in CtorStepInputs, va \in CtorValueInputs}

NoTraversal == [pc |-> "idle", current |-> Fin(0), out |-> <<>>, runs |-> 0]

\* CGPoint.zero and CGRect.zero, as values.
ZeroPoint == [x |-> Fin(0), y |-> Fin(0)]

ZeroRect == [x |-> Fin(0), y |-> Fin(0), width |-> Fin(0), height |-> Fin(0)]

NoGeoOp == [name |-> "none", n |-> 0, pts |-> <<>>, rect0 |-> ZeroRect, point0 |-> ZeroPoint]

\* CGSize.zero, as a value.
ZeroSize == [width |-> Fin(0), height |-> Fin(0)]

\* No call made yet.
NoCalc == [name |-> "none", args |-> <<>>, out |-> <<>>, threw |-> FALSE]

\* The points and lines that were constructed, each object at its index: two
\* references are to the same object when they are the same index. A line
\* holds the references of its start and end, and the line it was cloned from.
NoMem == [pts |-> <<>>, lines |-> <<>>, n |-> 0]

Init ==
  /\ heap = <<>>
  /\ born = <<>>
  /\ op = Op("none", 0, Undefined, NoOptions, FALSE)
  /\ nops = 0
  /\ it = NoTraversal
  /\ rect = ZeroRect
  /\ point = ZeroPoint
  /\ gop = NoGeoOp
  /\ zero = ZeroPoint
  /\ size = ZeroSize
  /\ calc = NoCalc
  /\ mem = NoMem

\* The instance is constructed once; instances that are not clones of each
\* other share nothing, and clones are explored in HeapSpec.
Next ==
  \/ heap = <<>> /\ \E o \in OptionInputs : New(o)
  \/ heap = <<>> /\ \E mn \in MaxInputs \ {Undefined}, mx \in MaxInputs \ {Undefined} :
                      FromTuple(mn[1], mx[1])
  \/ heap = <<>> /\ \E mn \in MaxInputs \ {Undefined}, mx \in MaxInputs \ {Undefined},
                       va \in CtorValueInputs : Create(mn[1], mx[1], va)
  \/ heap = <<>> /\ \E p \in PercentInputs, mn \in MinInputs, mx \in MaxInputs :
                      FromPercent(p, [NoOptions EXCEPT !.min = mn, !.max = mx])
  \/ \E i \in 1..Len(heap), va \in ValueInputs : SetValue(i, va)
  \/ \E i \in 1..Len(heap), st \in StepInputs : SetStep(i, st)
  \/ \E i \in 1..Len(heap), st \in ArgInputs : Increment(i, st)
  \/ \E i \in 1..Len(heap), st \in ArgInputs : Decrement(i, st)
  \/ \E i \in 1..Len(heap) : Clamp(i)
  \/ \E i \in 1..Len(heap) : SnapToStep(i)
  \/ \E i \in 1..Len(heap) : Reset(i)

Spec == Init /\ [][Next]_vars

\* The constructor, setValue, setStep and snapToStep alone.
SnapNext ==
  \/ heap = <<>> /\ \E o \in OptionInputs : New(o)
  \/ \E i \in 1..Len(heap), va \in ValueInputs : SetValue(i, va)
  \/ \E i \in 1..Len(heap), st \in StepInputs : SetStep(i, st)
  \/ \E i \in 1..Len(heap) : SnapToStep(i)

SnapSpec == Init /\ [][SnapNext]_vars

(* ----------------------------------------------------------------------- *)
(* CFNumericRange: properties of one instance                              *)
(* ----------------------------------------------------------------------- *)

\* The instance the last operation was called on.
Self == heap[op.self]

\* C1: after clamp() the numeric value lies in [min, max]:
\* min <= valueOf() <= max, whatever value and precision the range had.
C1_ClampClosure ==
  (op.name = "clamp" /\ NLe(Self.min, Self.max))
    => NLe(Self.min, ValueOf(Self)) /\ NLe(ValueOf(Self), Self.max)

\* C6: snapToStep() sets the numeric value to round(v / step) * step, v the
\* numeric value before the call and step the current step.
C6_SnapToStep ==
  [][op'.name = "snapToStep"
       => ValueOf(heap'[op'.self])
            = NMul(MathRoundDiv(ValueOf(heap[op'.self]), heap[op'.self].step),
                   heap[op'.self].step)]_vars

\* The step an increment or decrement of instance i is made with.
StepTaken(i) == OrDefault(op'.num, heap[i].step)

\* min, max, step and precision of instance i are left as they are.
BoundsKept(i) ==
  /\ heap'[i].min = heap[i].min
  /\ heap'[i].max = heap[i].max
  /\ heap'[i].step = heap[i].step
  /\ heap'[i].precision = heap[i].precision

\* C7: increment(s) makes valueOf() the previous valueOf() + s and
\* decrement(s) the previous valueOf() - s, without clamping; of the empty
\* string they make +s and -s; min, max, step and precision stay.
C7_IncrementDecrement ==
  [][/\ op'.name = "increment"
          => /\ BoundsKept(op'.self)
             /\ ValueOf(heap'[op'.self])
                  = IF heap[op'.self].value = EmptyString
                    THEN StepTaken(op'.self)
                    ELSE NAdd(ValueOf(heap[op'.self]), StepTaken(op'.self))
     /\ op'.name = "decrement"
          => /\ BoundsKept(op'.self)
             /\ ValueOf(heap'[op'.self])
                  = IF heap[op'.self].value = EmptyString
                    THEN NNeg(StepTaken(op'.self))
                    ELSE NAdd(ValueOf(heap[op'.self]), NNeg(StepTaken(op'.self)))]_vars

\* An increment has taken the value above max.
C7_Witness == op.name = "increment" /\ NGt(ValueOf(Self), Self.max)

\* C8: fromPercent(p, {min, max}) returns a range with that min and max whose
\* valueOf() is min + p * (max - min), inside [min, max] or not.  (In units
\* of 1/Scale: value * Scale = min * Scale + p * (max - min).)
C8_FromPercent ==
  (op.name = "fromPercent" /\ ~op.threw)
    => /\ Self.min = OrDefault(op.opts.min, DefaultMin)
       /\ Self.max = OrDefault(op.opts.max, DefaultMax)
       /\ IsFin(ValueOf(Self))
       /\ ValueOf(Self).v * Scale
            = Self.min.v * Scale + op.num[1].v * (Self.max.v - Self.min.v)

\* fromPercent has returned a range whose value is above its max.
C8_Witness == op.name = "fromPercent" /\ ~op.threw /\ NGt(ValueOf(Self), Self.max)

(* ----------------------------------------------------------------------- *)
(* CFNumericRange: several instances, clones among them                    *)
(* ----------------------------------------------------------------------- *)

\* At most HeapMaxOps calls change an instance where several instances exist.
HeapMaxOps == 2

\* Options tried where instances are derived from one another: none, a min
\* of 2, and a min of 2 with a max of 1.
HeapOptionInputs ==
  {NoOptions,
   [NoOptions EXCEPT !.min = Some(Int2Num(2))],
   [NoOptions EXCEPT !.min = Some(Int2Num(2)), !.max = Some(Int2Num(1))]}

\* The options of withOptions: a min of 2, or a max of 1.
HeapWithInputs ==
  {[NoOptions EXCEPT !.min = Some(Int2Num(2))], [NoOptions EXCEPT !.max = Some(Int2Num(1))]}

\* [min, max] of create and fromTuple: [1, 2] and [2, 1].
HeapTupleInputs == {<<Int2Num(1), Int2Num(2)>>, <<Int2Num(2), Int2Num(1)>>}

\* fromValues: the values [1, 2] and [3, 1], with min 2 and max 100.
HeapValuesInputs == {<<Int2Num(1), Int2Num(2)>>, <<Int2Num(3), Int2Num(1)>>}

HeapNext ==
  \/ Len(heap) < MaxInst /\ \E o \in HeapOptionInputs : New(o)
  \/ Len(heap) < MaxInst /\ \E t \in HeapTupleInputs : FromTuple(t[1], t[2])
  \/ Len(heap) < MaxInst /\ \E t \in HeapTupleInputs :
                              Create(t[1], t[2], Some(NumV(Int2Num(3))))
  \/ Len(heap) < MaxInst /\ \E t \in {Undefined} \cup {Some(Int2Num(2))} :
                              FromPercent(Half, [NoOptions EXCEPT !.min = t,
                                                                  !.max = Some(Int2Num(1))])
  \/ \E vs \in HeapValuesInputs :
       Len(heap) + Len(vs) <= MaxInst /\ FromValues(vs, Int2Num(2), DefaultMax)
  \/ Len(heap) < MaxInst /\ \E i \in 1..Len(heap) : Clone(i)
  \/ Len(heap) < MaxInst /\ \E i \in 1..Len(heap), o \in HeapWithInputs : WithOptions(i, o)
  \/ nops < HeapMaxOps /\ \E i \in 1..Len(heap) : SetValue(i, NumV(Int2Num(5)))
  \/ nops < HeapMaxOps /\ \E i \in 1..Len(heap) : SetStep(i, Int2Num(2))
  \/ nops < HeapMaxOps /\ \E i \in 1..Len(heap) : Increment(i, Undefined)
  \/ nops < HeapMaxOps /\ \E i \in 1..Len(heap) : Decrement(i, Undefined)
  \/ nops < HeapMaxOps /\ \E i \in 1..Len(heap) : Clamp(i)
  \/ nops < HeapMaxOps /\ \E i \in 1..Len(heap) : SnapToStep(i)
  \/ nops < HeapMaxOps /\ \E i \in 1..Len(heap) : Reset(i)

HeapSpec == Init /\ [][HeapNext]_vars

\* Every instance there is has max >= min, and a call that threw returned
\* no instance.
MaxNotBelowMin ==
  /\ \A i \in 1..Len(heap) : NGe(heap[i].max, heap[i].min)
  /\ op.threw => op.self = 0

\* A call that throws leaves the instances as they were, and a construction
\* whose options have max < min throws.
ConstructionFails ==
  /\ op'.threw => heap' = heap /\ born' = born
  /\ (op'.name \in {"new", "fromTuple", "create", "fromPercent"}
        /\ NLt(OrDefault(op'.opts.max, DefaultMax), OrDefault(op'.opts.min, DefaultMin)))
       => op'.threw

\* C2: a construction with max < min throws a range error and produces no
\* instance, and every instance that exists after any sequence of the public
\* operations has max >= min.
C2_MaxNotBelowMin == [][ConstructionFails]_vars /\ []MaxNotBelowMin

\* A construction with max < min has thrown after a call that changed an
\* instance, with that instance still there.
C2_Witness ==
  /\ op.threw
  /\ NLt(OrDefault(op.opts.max, DefaultMax), OrDefault(op.opts.min, DefaultMin))
  /\ Len(heap) >= 1
  /\ nops >= 1

\* C3: reset() sets value, step, min, max and precision of the instance to
\* the values that instance had when it was constructed.
C3_ResetRestores ==
  [][op'.name = "reset" => Snapshot(heap'[op'.self]) = born[op'.self]]_vars

(* ----------------------------------------------------------------------- *)
(* CFNumericRange: traversal ([Symbol.iterator])                           *)
(* ----------------------------------------------------------------------- *)

\* it.pc:      "idle" before any traversal; "test" at the loop test
\*             `current <= this.max`; "yield" while the generator is suspended
\*             at `yield current`; "done" once the loop has ended.
\* it.current: the generator's local variable.
\* it.out:     the values yielded by this traversal, the first MaxYield of them.
\* it.runs:    the traversals started.
MaxYield == 22

MaxRuns == 2

\* A loop test that leaves max itself out: not the generator's.
LoopTestStrict(current, r) == NLt(current, r.max)

\* `current <= this.max`
LoopTest(current, r) == NLe(current, r.max)

\* The generator is created and entered: `let current = this.min`.
IterStart ==
  /\ heap # <<>>
  /\ it.pc \in {"idle", "done"}
  /\ it.runs < MaxRuns
  /\ it' = [pc |-> "test", current |-> heap[1].min, out |-> <<>>, runs |-> it.runs + 1]
  /\ UNCHANGED <<heap, born, op, nops, geo>>

\* The loop test; when it holds, `yield current` suspends the generator.
IterTest ==
  /\ it.pc = "test"
  /\ IF LoopTest(it.current, heap[1])
     THEN it' = [it EXCEPT !.pc = "yield",
                           !.out = IF Len(it.out) < MaxYield
                                   THEN Append(it.out, it.current) ELSE it.out]
     ELSE it' = [it EXCEPT !.pc = "done"]
  /\ UNCHANGED <<heap, born, op, nops, geo>>

\* The generator is resumed: `current += this.step`.
IterAdvance ==
  /\ it.pc = "yield"
  /\ it' = [it EXCEPT !.pc = "test", !.current = NAdd(it.current, heap[1].step)]
  /\ UNCHANGED <<heap, born, op, nops, geo>>

\* The ranges traversed: min unset or 2.5; max 1, 2.5 or 10; step unset or
\* 0.5; value unset or 3.
IterOptionInputs ==
  {Options(mn, mx, Undefined, st, va) :
     mn \in MinInputs,
     mx \in {Some(Int2Num(1)), Some(NMul(Int2Num(5), Half)), Some(Int2Num(10))},
     st \in CtorStepInputs,
     va \in {Undefined, Some(NumV(Int2Num(3)))}}

\* A range is constructed, its step is set at most once, and it is then
\* traversed, unchanged, up to MaxRuns times.
IterNext ==
  \/ heap = <<>> /\ \E o \in IterOptionInputs : New(o)
  \/ it.pc = "idle" /\ nops < 1 /\ \E i \in 1..Len(heap), st \in StepInputs : SetStep(i, st)
  \/ IterStart
  \/ IterTest
  \/ IterAdvance

IterSpec == Init /\ [][IterNext]_vars

\* The consumer of a traversal (for..of, spread, Array.from) keeps asking for
\* the next element until the generator is done.
FairIterSpec == IterSpec /\ WF_vars(IterTest) /\ WF_vars(IterAdvance)

\* C4: every traversal terminates after finitely many elements, whatever the
\* step of the range (zero and negative steps included).
C4_TraversalTerminates == (it.pc = "test") ~> (it.pc = "done")

\* The numbers min, min + step, min + 2 * step, ... that are <= max (step > 0).
Expected(r) ==
  [k \in 1..(((r.max.v - r.min.v) \div r.step.v) + 1) |-> Fin(r.min.v + (k - 1) * r.step.v)]

Point(x, y) == [x |-> x, y |-> y]

\* new CGRect({ x, y, width, height })
Rect(x, y, width, height) == [x |-> x, y |-> y, width |-> width, height |-> height]

RECURSIVE MathMinOf(_)
\* Math.min(...values); Infinity of no values.
MathMinOf(values) ==
  IF values = <<>> THEN PInf ELSE MathMin(Head(values), MathMinOf(Tail(values)))

RECURSIVE MathMaxOf(_)
\* Math.max(...values); -Infinity of no values.
MathMaxOf(values) ==
  IF values = <<>> THEN NInf ELSE MathMax(Head(values), MathMaxOf(Tail(values)))

\* points.map((point) => point.x) and points.map((point) => point.y)
XValues(points) == [i \in 1..Len(points) |-> points[i].x]

YValues(points) == [i \in 1..Len(points) |-> points[i].y]

\* The rectangle from x, y to the largest x and y values.
RectOfExtent(x, y, maxX, maxY) == Rect(x, y, NSub(maxX, x), NSub(maxY, y))

\* CGRect.fromPoints(...points)
FromPoints(points) ==
  RectOfExtent(MathMinOf(XValues(points)), MathMinOf(YValues(points)),
               MathMaxOf(XValues(points)), MathMaxOf(YValues(points)))

\* The getters minX, maxX, minY, maxY of CGRect.
MinX(r) == r.x

MaxX(r) == NAdd(r.x, r.width)

MinY(r) == r.y

MaxY(r) == NAdd(r.y, r.height)

\* A test that leaves the right and bottom edges out: not containsPoint.
ContainsPointInside(r, p) ==
  /\ ~NLt(p.x, MinX(r))
  /\ NLt(p.x, MaxX(r))
  /\ ~NLt(p.y, MinY(r))
  /\ NLt(p.y, MaxY(r))

\* The four comparisons without the tests of the rectangle's own x and y:
\* not what containsPoint computes.
ContainsPointUnchecked(r, p) ==
  /\ ~NLt(p.x, MinX(r))
  /\ ~NGt(p.x, MaxX(r))
  /\ ~NLt(p.y, MinY(r))
  /\ ~NGt(p.y, MaxY(r))

\* rect.containsPoint(point)
ContainsPoint(r, p) ==
  /\ ~NLt(p.x, MinX(r))
  /\ ~NGt(p.x, MaxX(r))
  /\ ~NLt(p.y, MinY(r))
  /\ ~NGt(p.y, MaxY(r))
  /\ ~IsNaN(r.x)
  /\ ~IsNaN(r.y)

\* A width and height measured from the origin before it is rounded: not
\* what pixelAlign of CGRect computes.
PixelAlignFromOrigin(r) ==
  Rect(MathRound(r.x), MathRound(r.y),
       MathMax(NSub(MathRound(NAdd(r.x, r.width)), r.x), Fin(0)),
       MathMax(NSub(MathRound(NAdd(r.y, r.height)), r.y), Fin(0)))

\* The origin rounded and the extents rounded on their own: not what
\* pixelAlign of CGRect computes.
PixelAlignExtents(r) ==
  Rect(MathRound(r.x), MathRound(r.y),
       MathMax(MathRound(r.width), Fin(0)), MathMax(MathRound(r.height), Fin(0)))

\* rect.pixelAlign()
PixelAlignRect(r) ==
  Rect(MathRound(r.x), MathRound(r.y),
       MathMax(NSub(MathRound(NAdd(r.x, r.width)), MathRound(r.x)), Fin(0)),
       MathMax(NSub(MathRound(NAdd(r.y, r.height)), MathRound(r.y)), Fin(0)))

\* The nearest integer, a tie going to the even one.
RoundHalfEven(a) ==
  IF ~IsFin(a) THEN a
  ELSE IF 2 * (a.v % Scale) < Scale THEN Fin((a.v \div Scale) * Scale)
  ELSE IF 2 * (a.v % Scale) > Scale THEN Fin(((a.v \div Scale) + 1) * Scale)
  ELSE IF (a.v \div Scale) % 2 = 0 THEN Fin((a.v \div Scale) * Scale)
  ELSE Fin(((a.v \div Scale) + 1) * Scale)

\* The components rounded with ties going to the even integer: not what
\* pixelAlign of CGPoint computes.
PixelAlignPointToEven(p) == Point(RoundHalfEven(p.x), RoundHalfEven(p.y))

\* point.pixelAlign()
PixelAlignPoint(p) == Point(MathRound(p.x), MathRound(p.y))

\* At most MaxPoints points are given to fromPoints, and pixelAlign is
\* applied at most MaxAlign times in a row.
MaxPoints == 3

MaxAlign == 3

\* Coordinates: -1.5, -0.5, 0.4, 2.  Widths and heights: -1.5, 0, 0.5, 1, 2.6.
CoordInputs == {Fin(-150), Fin(-50), Fin(40), Fin(200)}

SizeInputs == {Fin(-150), Fin(0), Fin(50), Fin(100), Fin(260)}

PointInputs == {Point(x, y) : x \in CoordInputs, y \in CoordInputs}

\* The non-empty lists of at most MaxPoints points.
PointLists == UNION {[1..n -> PointInputs] : n \in 1..MaxPoints}

\* CGRect.create(x, y, width, height)
RectCreate(x, y, width, height) ==
  /\ rect' = Rect(x, y, width, height)
  /\ gop' = [NoGeoOp EXCEPT !.name = "CGRect.create", !.n = 1,
                            !.rect0 = Rect(x, y, width, height)]
  /\ UNCHANGED <<mem, heap, born, op, nops, it, point, zero, size, calc>>

\* CGRect.fromPoints(...points)
RectFromPoints(points) ==
  /\ rect' = FromPoints(points)
  /\ gop' = [NoGeoOp EXCEPT !.name = "CGRect.fromPoints", !.n = 1, !.pts = points,
                            !.rect0 = FromPoints(points)]
  /\ UNCHANGED <<mem, heap, born, op, nops, it, point, zero, size, calc>>

\* rect.pixelAlign()
RectPixelAlign ==
  /\ gop.name \in {"CGRect.create", "CGRect.fromPoints", "CGRect.pixelAlign"}
  /\ gop.name = "CGRect.pixelAlign" => gop.n < MaxAlign
  /\ rect' = PixelAlignRect(rect)
  /\ gop' = [gop EXCEPT !.name = "CGRect.pixelAlign",
                        !.n = IF gop.name = "CGRect.pixelAlign" THEN gop.n + 1 ELSE 1]
  /\ UNCHANGED <<mem, heap, born, op, nops, it, point, zero, size, calc>>

\* CGPoint.create(x, y)
PointCreate(x, y) ==
  /\ point' = Point(x, y)
  /\ gop' = [NoGeoOp EXCEPT !.name = "CGPoint.create", !.n = 1, !.point0 = Point(x, y)]
  /\ UNCHANGED <<mem, heap, born, op, nops, it, rect, zero, size, calc>>

\* point.pixelAlign()
PointPixelAlign ==
  /\ gop.name \in {"CGPoint.create", "CGPoint.pixelAlign"}
  /\ gop.name = "CGPoint.pixelAlign" => gop.n < MaxAlign
  /\ point' = PixelAlignPoint(point)
  /\ gop' = [gop EXCEPT !.name = "CGPoint.pixelAlign",
                        !.n = IF gop.name = "CGPoint.pixelAlign" THEN gop.n + 1 ELSE 1]
  /\ UNCHANGED <<mem, heap, born, op, nops, it, rect, zero, size, calc>>

\* One rectangle or one point is created, and then aligned.
RectNext ==
  \/ gop.name = "none"
       /\ \E x \in CoordInputs, y \in CoordInputs, w \in SizeInputs, h \in SizeInputs :
            RectCreate(x, y, w, h)
  \/ gop.name = "none" /\ \E ps \in PointLists : RectFromPoints(ps)
  \/ RectPixelAlign
  \/ gop.name = "none" /\ \E x \in CoordInputs, y \in CoordInputs : PointCreate(x, y)
  \/ PointPixelAlign

RectSpec == Init /\ [][RectNext]_vars

C10_PixelAlignIdempotent ==
  /\ (gop.name = "CGRect.pixelAlign" /\ gop.n >= 2) => rect = PixelAlignRect(gop.rect0)
  /\ (gop.name = "CGPoint.pixelAlign" /\ gop.n >= 2) => point = PixelAlignPoint(gop.point0)

\* pixelAlign has been applied twice to a rectangle created with a fractional
\* x and a negative width.
C10_Witness ==
  /\ gop.name = "CGRect.pixelAlign"
  /\ gop.n = 2
  /\ gop.rect0.x = Fin(40)
  /\ gop.rect0.width.v < 0
  /\ gop.rect0.height = Fin(260)

\* ---------------------------------------------------------------------------
\* Two rectangles
\* ---------------------------------------------------------------------------

\* A test that counts rectangles that touch: not what intersects computes.
IntersectsTouching(rectA, rectB) ==
  /\ NLe(rectA.x, MaxX(rectB))
  /\ NLe(rectA.y, MaxY(rectB))
  /\ NGe(MaxX(rectA), rectB.x)
  /\ NGe(MaxY(rectA), rectB.y)

\* CGRect.intersects(rectA, rectB)
Intersects(rectA, rectB) ==
  /\ NLt(rectA.x, MaxX(rectB))
  /\ NLt(rectA.y, MaxY(rectB))
  /\ NGt(MaxX(rectA), rectB.x)
  /\ NGt(MaxY(rectA), rectB.y)

\* The rectangles the calls are made on: a grid of origins and sizes, the
\* sizes negative, zero and positive, the two rectangles of the package's
\* test of intersection, and a rectangle whose x or y is NaN.
PairCoords == {Fin(0), Fin(100)}

PairSizes == {Fin(-100), Fin(0), Fin(100), Fin(200)}

PairRects ==
  {Rect(x, y, w, h) : x \in PairCoords, y \in PairCoords, w \in PairSizes, h \in PairSizes}
    \cup {Rect(Fin(0), Fin(0), Fin(8000), Fin(10000)),
          Rect(Fin(6000), Fin(2000), Fin(5000), Fin(4500)),
          Rect(NaN, Fin(0), Fin(100), Fin(100)),
          Rect(Fin(0), NaN, Fin(100), Fin(100))}

\* The record of a call of the given name on the rectangle.
Called(name, args, out) == [name |-> name, args |-> args, out |-> out, threw |-> FALSE]

\* A call can be made: the rectangle was created and no call was made yet.
CanCall == gop.name = "CGRect.create" /\ calc.name = "none"

\* rect.intersects(other)
RectIntersects(other) ==
  /\ calc' = Called("CGRect.intersects", <<other>>, Intersects(rect, other))
  /\ UNCHANGED <<mem, heap, born, op, nops, it, rect, point, gop, zero, size>>

\* Both extents of the rectangle are zero or more.
NonNegative(r) == NGe(r.width, Fin(0)) /\ NGe(r.height, Fin(0))

\* The rectangles lie side by side or one above the other: what they share,
\* if anything, is on an edge of both.
Apart(a, b) ==
  \/ NLe(MaxX(a), MinX(b))
  \/ NLe(MaxX(b), MinX(a))
  \/ NLe(MaxY(a), MinY(b))
  \/ NLe(MaxY(b), MinY(a))

\* The four comparisons of minima and maxima, both strict.
StrictlyCrossing(a, b) ==
  /\ NLt(MinX(a), MaxX(b))
  /\ NLt(MinY(a), MaxY(b))
  /\ NGt(MaxX(a), MinX(b))
  /\ NGt(MaxY(a), MinY(b))

\* The argument of the call.
Other == calc.args[1]

\* C11: intersects(a, b) is true exactly when a.minX < b.maxX, a.minY <
\* b.maxY, a.maxX > b.minX and a.maxY > b.minY; rectangles of non-negative
\* extents that share only an edge or a corner do not intersect; and
\* intersects(a, b) = intersects(b, a).
C11_Intersects ==
  calc.name = "CGRect.intersects" =>
    /\ calc.out = StrictlyCrossing(rect, Other)
    /\ (NonNegative(rect) /\ NonNegative(Other) /\ Apart(rect, Other)) => ~calc.out
    /\ calc.out = Intersects(Other, rect)

\* Two rectangles of positive extents with one edge in common were tested,
\* and do not intersect.
C11_Witness ==
  /\ calc.name = "CGRect.intersects"
  /\ NGt(rect.width, Fin(0)) /\ NGt(rect.height, Fin(0))
  /\ NGt(Other.width, Fin(0)) /\ NGt(Other.height, Fin(0))
  /\ MaxX(rect) = MinX(Other)
  /\ MinY(rect) = MinY(Other)
  /\ ~calc.out

\* The corner getters and cornerPoints of CGRect: top left, top right,
\* bottom right, bottom left.
CornerPoints(r) ==
  <<Point(MinX(r), MinY(r)), Point(MaxX(r), MinY(r)),
    Point(MaxX(r), MaxY(r)), Point(MinX(r), MaxY(r))>>

\* rect.containsRect(other)
ContainsRect(r, other) ==
  \A i \in 1..4 : ContainsPoint(r, CornerPoints(other)[i])

\* An extent measured from the first rectangle's origin: not what
\* intersection computes.
IntersectionFromFirst(rect1, rect2) ==
  Rect(MathMax(rect1.x, rect2.x), MathMax(rect1.y, rect2.y),
       NSub(MathMin(NAdd(rect1.x, rect1.width), NAdd(rect2.x, rect2.width)), rect1.x),
       NSub(MathMin(NAdd(rect1.y, rect1.height), NAdd(rect2.y, rect2.height)), rect1.y))

\* The distances between the origin and the smaller maximum, without their
\* signs: not what intersection computes.
IntersectionUnsigned(rect1, rect2) ==
  Rect(MathMax(rect1.x, rect2.x), MathMax(rect1.y, rect2.y),
       MathMax(NSub(MathMin(NAdd(rect1.x, rect1.width), NAdd(rect2.x, rect2.width)),
                    MathMax(rect1.x, rect2.x)),
               NSub(MathMax(rect1.x, rect2.x),
                    MathMin(NAdd(rect1.x, rect1.width), NAdd(rect2.x, rect2.width)))),
       MathMax(NSub(MathMin(NAdd(rect1.y, rect1.height), NAdd(rect2.y, rect2.height)),
                    MathMax(rect1.y, rect2.y)),
               NSub(MathMax(rect1.y, rect2.y),
                    MathMin(NAdd(rect1.y, rect1.height), NAdd(rect2.y, rect2.height)))))

\* CGRect.intersection(rect1, rect2)
Intersection(rect1, rect2) ==
  Rect(MathMax(rect1.x, rect2.x), MathMax(rect1.y, rect2.y),
       NSub(MathMin(NAdd(rect1.x, rect1.width), NAdd(rect2.x, rect2.width)),
            MathMax(rect1.x, rect2.x)),
       NSub(MathMin(NAdd(rect1.y, rect1.height), NAdd(rect2.y, rect2.height)),
            MathMax(rect1.y, rect2.y)))

\* rect.intersection(other)
RectIntersection(other) ==
  /\ calc' = Called("CGRect.intersection", <<other>>, Intersection(rect, other))
  /\ UNCHANGED <<mem, heap, born, op, nops, it, rect, point, gop, zero, size>>

\* The rectangle of the claim: from the larger origin to the smaller maximum.
CommonPart(a, b) ==
  Rect(MathMax(a.x, b.x), MathMax(a.y, b.y),
       NSub(MathMin(MaxX(a), MaxX(b)), MathMax(a.x, b.x)),
       NSub(MathMin(MaxY(a), MaxY(b)), MathMax(a.y, b.y)))

\* The result of intersection is the rectangle of the larger origin and the
\* smaller maximum, lies in both rectangles when they intersect, and is
\* (60,20,20,45) for the rectangles of the example.
IntersectionResult ==
  calc.name = "CGRect.intersection" =>
    /\ calc.out = CommonPart(rect, Other)
    /\ (NonNegative(rect) /\ NonNegative(Other) /\ Intersects(rect, Other)) =>
         /\ NonNegative(calc.out)
         /\ ContainsRect(rect, calc.out)
         /\ ContainsRect(Other, calc.out)
    /\ (/\ rect = Rect(Fin(0), Fin(0), Fin(8000), Fin(10000))
        /\ Other = Rect(Fin(6000), Fin(2000), Fin(5000), Fin(4500))) =>
         calc.out = Rect(Fin(6000), Fin(2000), Fin(2000), Fin(4500))

OverlapsHorizontally(rectA, rectB) ==
  NGt(MaxX(rectA), rectB.x) /\ NGt(MaxX(rectB), rectA.x)

\* CGRect.overlapsVertically(rectA, rectB)
OverlapsVertically(rectA, rectB) ==
  NGt(MaxY(rectA), rectB.y) /\ NGt(MaxY(rectB), rectA.y)

\* An overlap on both axes: not what overlaps computes.
OverlapsOnBoth(rectA, rectB) ==
  OverlapsHorizontally(rectA, rectB) /\ OverlapsVertically(rectA, rectB)

\* CGRect.overlaps(rectA, rectB)
Overlaps(rectA, rectB) ==
  OverlapsHorizontally(rectA, rectB) \/ OverlapsVertically(rectA, rectB)

\* rect.overlaps(other)
RectOverlaps(other) ==
  /\ calc' = Called("CGRect.overlaps", <<other>>, Overlaps(rect, other))
  /\ UNCHANGED <<mem, heap, born, op, nops, it, rect, point, gop, zero, size>>

\* The X intervals of the rectangles overlap, and the Y intervals.
XOverlap(a, b) == NGt(MaxX(a), b.x) /\ NGt(MaxX(b), a.x)

YOverlap(a, b) == NGt(MaxY(a), b.y) /\ NGt(MaxY(b), a.y)

\* C13: overlaps(a, b) is true exactly when the X intervals overlap (a.maxX >
\* b.x and b.maxX > a.x) or the Y intervals overlap (a.maxY > b.y and b.maxY
\* > a.y), and intersects(a, b) implies overlaps(a, b).
C13_Overlaps ==
  calc.name = "CGRect.overlaps" =>
    /\ calc.out = (XOverlap(rect, Other) \/ YOverlap(rect, Other))
    /\ Intersects(rect, Other) => calc.out

\* Two rectangles of positive extents that overlap on the X axis only were
\* tested: they overlap and do not intersect.
C13_Witness ==
  /\ calc.name = "CGRect.overlaps"
  /\ NGt(rect.width, Fin(0)) /\ NGt(rect.height, Fin(0))
  /\ NGt(Other.width, Fin(0)) /\ NGt(Other.height, Fin(0))
  /\ XOverlap(rect, Other)
  /\ ~YOverlap(rect, Other)
  /\ calc.out
  /\ ~Intersects(rect, Other)

\* The points tested: inside, on the edges and outside of the rectangles of
\* PairRects, and points with a coordinate that is NaN.
PairPointCoords == {Fin(-100), Fin(0), Fin(50), Fin(100), Fin(200), Fin(300), NaN}

PairPoints == {Point(x, y) : x \in PairPointCoords, y \in PairPointCoords}

\* rect.containsPoint(p)
RectContainsPoint(p) ==
  /\ calc' = Called("CGRect.containsPoint", <<p>>, ContainsPoint(rect, p))
  /\ UNCHANGED <<mem, heap, born, op, nops, it, rect, point, gop, zero, size>>

\* Every coordinate of the rectangle and of the point is a finite number.
Ordinary(r, p) ==
  /\ IsFin(r.x) /\ IsFin(r.y) /\ IsFin(r.width) /\ IsFin(r.height)
  /\ IsFin(p.x) /\ IsFin(p.y)

\* minX <= p.x <= maxX and minY <= p.y <= maxY
WithinBounds(r, p) ==
  /\ NLe(MinX(r), p.x) /\ NLe(p.x, MaxX(r))
  /\ NLe(MinY(r), p.y) /\ NLe(p.y, MaxY(r))

\* C14: for a rectangle and a point of ordinary numbers, containsPoint(p) is
\* true exactly when minX <= p.x <= maxX and minY <= p.y <= maxY, the
\* boundary included; and when the rectangle's x or y is NaN, containsPoint
\* is false for every p.
C14_ContainsPoint ==
  calc.name = "CGRect.containsPoint" =>
    /\ Ordinary(rect, Other) => (calc.out = WithinBounds(rect, Other))
    /\ (IsNaN(rect.x) \/ IsNaN(rect.y)) => ~calc.out

\* A point on the right edge of a rectangle of positive extents was tested,
\* and is contained.
C14_Witness ==
  /\ calc.name = "CGRect.containsPoint"
  /\ Ordinary(rect, Other)
  /\ NGt(rect.width, Fin(0)) /\ NGt(rect.height, Fin(0))
  /\ Other.x = MaxX(rect)
  /\ calc.out

\* rects.map((rect) => rect.minX) and the like.
MinXs(rects) == [i \in 1..Len(rects) |-> MinX(rects[i])]

MinYs(rects) == [i \in 1..Len(rects) |-> MinY(rects[i])]

MaxXs(rects) == [i \in 1..Len(rects) |-> MaxX(rects[i])]

MaxYs(rects) == [i \in 1..Len(rects) |-> MaxY(rects[i])]

\* The rectangle from the smallest origin with the extent of the first
\* rectangle: not what merge computes.
MergeKeepingExtent(rects) ==
  Rect(MathMinOf(MinXs(rects)), MathMinOf(MinYs(rects)), rects[1].width, rects[1].height)

\* CGRect.merge(...rects)
Merge(rects) ==
  FromPoints(<<Point(MathMinOf(MinXs(rects)), MathMinOf(MinYs(rects))),
               Point(MathMaxOf(MaxXs(rects)), MathMaxOf(MaxYs(rects)))>>)

\* At most MaxMerge rectangles are merged with the first.
MaxMerge == 2

\* The rectangles merged with the first.
MergeRects ==
  {Rect(Fin(0), Fin(0), Fin(100), Fin(100)),
   Rect(Fin(100), Fin(0), Fin(200), Fin(0)),
   Rect(Fin(-150), Fin(250), Fin(50), Fin(100)),
   Rect(Fin(50), Fin(50), Fin(0), Fin(0)),
   Rect(Fin(0), Fin(100), Fin(-100), Fin(100)),
   Rect(Fin(0), NaN, Fin(100), Fin(100))}

MergeLists == UNION {[1..n -> MergeRects] : n \in 0..MaxMerge}

\* CGRect.merge(rect, ...others)
RectMerge(others) ==
  /\ calc' = Called("CGRect.merge", <<rect>> \o others, Merge(<<rect>> \o others))
  /\ UNCHANGED <<mem, heap, born, op, nops, it, rect, point, gop, zero, size>>

\* Every merged rectangle has non-negative extents.
AllNonNegative(rects) == \A i \in 1..Len(rects) : NonNegative(rects[i])

\* Every coordinate of every merged rectangle is a finite number.
AllOrdinary(rects) ==
  \A i \in 1..Len(rects) :
    IsFin(rects[i].x) /\ IsFin(rects[i].y) /\ IsFin(rects[i].width) /\ IsFin(rects[i].height)

\* m is the least of the values: below or equal to each, and one of them.
IsLeast(m, values) ==
  /\ \A i \in 1..Len(values) : NLe(m, values[i])
  /\ \E i \in 1..Len(values) : m = values[i]

\* m is the greatest of the values.
IsGreatest(m, values) ==
  /\ \A i \in 1..Len(values) : NGe(m, values[i])
  /\ \E i \in 1..Len(values) : m = values[i]

\* The result of merge is the bounding box of the merged rectangles and
\* contains each of them.
IsBoundingBox(box, rects) ==
  /\ IsLeast(MinX(box), MinXs(rects))
  /\ IsLeast(MinY(box), MinYs(rects))
  /\ IsGreatest(MaxX(box), MaxXs(rects))
  /\ IsGreatest(MaxY(box), MaxYs(rects))
  /\ \A i \in 1..Len(rects) : ContainsRect(box, rects[i])

\* merge leaves the rectangle it is given as it was.
MergeKeepsInputs == [][calc'.name = "CGRect.merge" => rect' = rect]_vars

PairNext ==
  \/ gop.name = "none" /\ \E r \in PairRects : RectCreate(r.x, r.y, r.width, r.height)
  \/ CanCall /\ \E other \in PairRects : RectIntersects(other)
  \/ CanCall /\ \E other \in PairRects : RectIntersection(other)
  \/ CanCall /\ \E other \in PairRects : RectOverlaps(other)
  \/ CanCall /\ \E p \in PairPoints : RectContainsPoint(p)
  \/ CanCall /\ \E others \in MergeLists : RectMerge(others)

PairSpec == Init /\ [][PairNext]_vars

\* ---------------------------------------------------------------------------
\* The distance of a rectangle from a point, and CGPoint.zero
\* ---------------------------------------------------------------------------

RECURSIVE RootBetween(_, _, _)
\* The largest r in lo..hi with r * r <= n.
RootBetween(n, lo, hi) ==
  IF lo = hi THEN lo
  ELSE IF ((lo + hi + 1) \div 2) * ((lo + hi + 1) \div 2) <= n
         THEN RootBetween(n, (lo + hi + 1) \div 2, hi)
         ELSE RootBetween(n, lo, ((lo + hi + 1) \div 2) - 1)

\* The natural number nearest to the square root of n.
NearestRoot(n, r) == IF n - r * r > r THEN r + 1 ELSE r

\* Math.sqrt(a), to the nearest number of the model.
MathSqrt(a) ==
  IF IsNaN(a) \/ a = NInf THEN NaN
  ELSE IF a = PInf THEN PInf
  ELSE IF a.v < 0 THEN NaN
  ELSE Fin(NearestRoot(a.v * Scale, RootBetween(a.v * Scale, 0, a.v + Scale)))

\* Math.abs(a)
MathAbs(a) == IF IsNaN(a) THEN NaN ELSE [k |-> a.k, v |-> Abs(a.v)]

\* deltaX * deltaX + deltaY * deltaY
SumOfSquares(deltaX, deltaY) == NAdd(NMul(deltaX, deltaX), NMul(deltaY, deltaY))

\* CGPoint.distance(a, b)
Distance(a, b) ==
  MathSqrt(SumOfSquares(MathAbs(NSub(a.x, b.x)), MathAbs(NSub(a.y, b.y))))

\* The x and the y of distanceFromPoint: how far the point is outside of the
\* rectangle on each axis.
GapX(r, p) ==
  IF NLt(p.x, r.x) THEN NSub(r.x, p.x)
  ELSE IF NGt(p.x, MaxX(r)) THEN NSub(p.x, MaxX(r))
  ELSE Fin(0)

GapY(r, p) ==
  IF NLt(p.y, r.y) THEN NSub(r.y, p.y)
  ELSE IF NGt(p.y, MaxY(r)) THEN NSub(p.y, MaxY(r))
  ELSE Fin(0)

\* rect.distanceFromPoint(point), CGPoint.zero being at z.
DistanceFromPoint(r, p, z) == Distance(Point(GapX(r, p), GapY(r, p)), z)

\* CGPoint.zero is moved while each of its coordinates is at most MaxZero
\* hundredths from 0.
MaxZero == 400

\* The point stays in the range of the model.
InZeroRange(p) ==
  /\ IsFin(p.x) /\ Abs(p.x.v) <= MaxZero
  /\ IsFin(p.y) /\ Abs(p.y.v) <= MaxZero

\* The points added to CGPoint.zero and set on it.
ZeroInputs == {Point(Fin(300), Fin(400)), Point(Fin(100), Fin(0)), Point(Fin(0), Fin(0))}

\* CGPoint.zero.add(p)
ZeroAdd(p) ==
  /\ calc.name = "none"
  /\ InZeroRange(Point(NAdd(zero.x, p.x), NAdd(zero.y, p.y)))
  /\ zero' = Point(NAdd(zero.x, p.x), NAdd(zero.y, p.y))
  /\ UNCHANGED <<mem, heap, born, op, nops, it, rect, point, gop, size, calc>>

\* CGPoint.zero.negate()
ZeroNegate ==
  /\ calc.name = "none"
  /\ zero' = Point(NNeg(zero.x), NNeg(zero.y))
  /\ UNCHANGED <<mem, heap, born, op, nops, it, rect, point, gop, size, calc>>

\* CGPoint.zero.set(p)
ZeroSet(p) ==
  /\ calc.name = "none"
  /\ zero' = Point(p.x, p.y)
  /\ UNCHANGED <<mem, heap, born, op, nops, it, rect, point, gop, size, calc>>

\* The rectangles whose distance is taken, and the points it is taken from.
DistanceRects ==
  {Rect(Fin(0), Fin(0), Fin(100), Fin(100)),
   Rect(Fin(100), Fin(100), Fin(200), Fin(100)),
   Rect(Fin(-100), Fin(0), Fin(0), Fin(0))}

DistanceCoords == {Fin(-300), Fin(0), Fin(50), Fin(100), Fin(400), Fin(500)}

DistancePoints == {Point(x, y) : x \in DistanceCoords, y \in DistanceCoords}

\* rect.distanceFromPoint(p)
RectDistanceFromPoint(p) ==
  /\ calc' = Called("CGRect.distanceFromPoint", <<p>>, DistanceFromPoint(rect, p, zero))
  /\ UNCHANGED <<mem, heap, born, op, nops, it, rect, point, gop, zero, size>>

\* CGPoint.init(): new CGPoint(CGPoint.zero)
PointInit ==
  /\ calc.name = "none"
  /\ calc' = Called("CGPoint.init", <<>>, Point(zero.x, zero.y))
  /\ UNCHANGED <<mem, heap, born, op, nops, it, rect, point, gop, zero, size>>

\* A rectangle is created, CGPoint.zero is used as a point of its own, and
\* the distance of the rectangle from a point is taken.
ZeroNext ==
  \/ gop.name = "none" /\ \E r \in DistanceRects : RectCreate(r.x, r.y, r.width, r.height)
  \/ \E p \in ZeroInputs : ZeroAdd(p)
  \/ ZeroNegate
  \/ \E p \in ZeroInputs : ZeroSet(p)
  \/ CanCall /\ \E p \in DistancePoints : RectDistanceFromPoint(p)
  \/ PointInit

ZeroSpec == Init /\ [][ZeroNext]_vars

\* The Euclidean norm of the two gaps.
Norm(x, y) == MathSqrt(NAdd(NMul(x, x), NMul(y, y)))

\* C16: in every state reachable through the public operations, those that
\* change CGPoint.zero included, rect.distanceFromPoint(p) is the Euclidean
\* norm of the gaps between p and the rectangle on each axis, and so is 0
\* when p lies inside the rectangle.
C16_DistanceFromPoint ==
  calc.name = "CGRect.distanceFromPoint" =>
    /\ calc.out = Norm(GapX(rect, Other), GapY(rect, Other))
    /\ ContainsPoint(rect, Other) => calc.out = Fin(0)

\* While CGPoint.zero is at (0, 0) the distance is the norm of the gaps.
C16_WithZeroAtOrigin ==
  (calc.name = "CGRect.distanceFromPoint" /\ zero = ZeroPoint) =>
    /\ calc.out = Norm(GapX(rect, Other), GapY(rect, Other))
    /\ ContainsPoint(rect, Other) => calc.out = Fin(0)

\* ---------------------------------------------------------------------------
\* Lines
\* ---------------------------------------------------------------------------

\* a / b; a finite quotient is rounded to the nearest representable number.
NDiv(a, b) ==
  IF IsNaN(a) \/ IsNaN(b) THEN NaN
  ELSE IF a.k = "inf" THEN (IF b.k = "inf" THEN NaN
                            ELSE [k |-> "inf", v |-> a.v * (IF b.v < 0 THEN -1 ELSE 1)])
  ELSE IF b.k = "inf" THEN Fin(0)
  ELSE IF b.v = 0 THEN (IF a.v = 0 THEN NaN ELSE [k |-> "inf", v |-> Sign(a.v)])
  ELSE IF b.v > 0 THEN Ovf(RoundQuot(a.v * Scale, b.v))
  ELSE Ovf(RoundQuot((-a.v) * Scale, -b.v))

\* new Line(start, end)
Line(start, end) == [start |-> start, end |-> end]

\* null, and a returned point.
Null == <<>>

Returned(p) == <<p>>

\* (b.x - a.x) * (d.y - c.y) - (b.y - a.y) * (d.x - c.x)
Determinant(a, b, c, d) ==
  NSub(NMul(NSub(b.x, a.x), NSub(d.y, c.y)), NMul(NSub(b.y, a.y), NSub(d.x, c.x)))

\* p.x * p.x + p.y * p.y
SquareSum(p) == NAdd(NMul(p.x, p.x), NMul(p.y, p.y))

\* The numerators of x and y in Line.intersection.
NumeratorX(a, c, d) ==
  NSub(NMul(SquareSum(a), NSub(d.y, c.y)), NMul(SquareSum(a), NSub(d.x, c.x)))

NumeratorY(a, b, c) ==
  NSub(NMul(SquareSum(b), NSub(a.y, c.y)), NMul(SquareSum(b), NSub(a.x, c.x)))

\* Line.intersection(lineA, lineB)
LineIntersection(lineA, lineB) ==
  IF Determinant(lineA.start, lineA.end, lineB.start, lineB.end) = Fin(0)
    THEN Null
    ELSE Returned(Point(
           NDiv(NumeratorX(lineA.start, lineB.start, lineB.end),
                Determinant(lineA.start, lineA.end, lineB.start, lineB.end)),
           NDiv(NumeratorY(lineA.start, lineA.end, lineB.start),
                Determinant(lineA.start, lineA.end, lineB.start, lineB.end))))

\* The end points of the lines, and the lines: every pair of them.
LineCoords == {Fin(0), Fin(100), Fin(200)}

LinePoints == {Point(x, y) : x \in LineCoords, y \in LineCoords}

Lines == {Line(s, e) : s \in LinePoints, e \in LinePoints}

\* Line.intersection(lineA, lineB)
CallLineIntersection(lineA, lineB) ==
  /\ calc' = Called("Line.intersection", <<lineA, lineB>>, LineIntersection(lineA, lineB))
  /\ UNCHANGED <<mem, heap, born, op, nops, it, rect, point, gop, zero, size>>

\* The lines of the call.
LineA == calc.args[1]

LineB == calc.args[2]

\* p is on the infinite line through s and e: the cross product of p - s and
\* e - s is 0.
Collinear(p, s, e) ==
  NMul(NSub(p.x, s.x), NSub(e.y, s.y)) = NMul(NSub(p.y, s.y), NSub(e.x, s.x))

\* The quotient num / den is a number of the model: nothing is rounded.
ExactQuotient(num, den) == IsFin(num) /\ IsFin(den) /\ den.v # 0 /\ (num.v * Scale) % den.v = 0

\* Both coordinates of the result of the call are exact.
ExactResult ==
  /\ ExactQuotient(NumeratorX(LineA.start, LineB.start, LineB.end),
                   Determinant(LineA.start, LineA.end, LineB.start, LineB.end))
  /\ ExactQuotient(NumeratorY(LineA.start, LineA.end, LineB.start),
                   Determinant(LineA.start, LineA.end, LineB.start, LineB.end))

\* C17: Line.intersection(lineA, lineB) returns none exactly when the
\* determinant u is 0; otherwise it returns the crossing point of the two
\* infinite lines: a point collinear with a and b and collinear with c and d.
\* (Checked on the results the model's numbers hold exactly.)
C17_LineIntersection ==
  calc.name = "Line.intersection" =>
    /\ (calc.out = Null) =
         (Determinant(LineA.start, LineA.end, LineB.start, LineB.end) = Fin(0))
    /\ (calc.out # Null /\ ExactResult) =>
         /\ Collinear(calc.out[1], LineA.start, LineA.end)
         /\ Collinear(calc.out[1], LineB.start, LineB.end)

\* The part of C17 that holds: none is returned exactly when u is 0.
NullWhenParallel ==
  calc.name = "Line.intersection" =>
    (calc.out = Null) = (Determinant(LineA.start, LineA.end, LineB.start, LineB.end) = Fin(0))

\* line.perpendicularLine(point)
PerpendicularLine(line, p) ==
  Line(Point(NSub(p.x, NSub(line.start.y, line.end.y)),
             NAdd(p.y, NSub(line.start.x, line.end.x))),
       p)

\* line.project(point)
Project(line, p) == LineIntersection(line, PerpendicularLine(line, p))

\* line.perpendicularLine(p)
CallPerpendicularLine(line, p) ==
  /\ calc' = Called("Line.perpendicularLine", <<line, p>>, PerpendicularLine(line, p))
  /\ UNCHANGED <<mem, heap, born, op, nops, it, rect, point, gop, zero, size>>

\* line.project(p)
CallProject(line, p) ==
  /\ calc' = Called("Line.project", <<line, p>>, Project(line, p))
  /\ UNCHANGED <<mem, heap, born, op, nops, it, rect, point, gop, zero, size>>

\* The direction of a line, from its start to its end.
DirX(line) == NSub(line.end.x, line.start.x)

DirY(line) == NSub(line.end.y, line.start.y)

\* The vectors (ax, ay) and (bx, by) are perpendicular: their dot product is 0.
Perpendicular(ax, ay, bx, by) == NAdd(NMul(ax, bx), NMul(ay, by)) = Fin(0)

\* The result of line.project(p) is exact in the numbers of the model.
ExactProjection(line, p) ==
  /\ ExactQuotient(NumeratorX(line.start, PerpendicularLine(line, p).start, p),
                   Determinant(line.start, line.end, PerpendicularLine(line, p).start, p))
  /\ ExactQuotient(NumeratorY(line.start, line.end, PerpendicularLine(line, p).start),
                   Determinant(line.start, line.end, PerpendicularLine(line, p).start, p))

\* perpendicularLine(P) is a line through P whose direction is perpendicular
\* to the direction of the line.
PerpendicularThroughPoint ==
  (calc.name = "Line.perpendicularLine" /\ calc.args[1].start # calc.args[1].end) =>
    /\ calc.out.start # calc.out.end
    /\ Collinear(calc.args[2], calc.out.start, calc.out.end)
    /\ Perpendicular(DirX(calc.out), DirY(calc.out), DirX(calc.args[1]), DirY(calc.args[1]))

\* project(P) is a point Q of the line with P - Q perpendicular to the line,
\* and is P when P is on the line.
ProjectionOntoLine ==
  (/\ calc.name = "Line.project"
   /\ calc.args[1].start # calc.args[1].end
   /\ ExactProjection(calc.args[1], calc.args[2])) =>
    /\ calc.out # Null
    /\ Collinear(calc.out[1], calc.args[1].start, calc.args[1].end)
    /\ Perpendicular(NSub(calc.args[2].x, calc.out[1].x), NSub(calc.args[2].y, calc.out[1].y),
                     DirX(calc.args[1]), DirY(calc.args[1]))
    /\ Collinear(calc.args[2], calc.args[1].start, calc.args[1].end) =>
         calc.out[1] = calc.args[2]

\* C18: for every line with distinct end points and every point P,
\* perpendicularLine(P) is a line through P whose direction is perpendicular
\* to the line's, and project(P) is the orthogonal projection of P onto the
\* line: a point Q of the infinite line with P - Q perpendicular to the
\* line's direction, and Q = P when P is on the line.
C18_Project == PerpendicularThroughPoint /\ ProjectionOntoLine

\* Lines and points are given to the operations of Line.
LineNext ==
  \/ calc.name = "none" /\ \E lineA \in Lines, lineB \in Lines : CallLineIntersection(lineA, lineB)
  \/ calc.name = "none" /\ \E line \in Lines, p \in LinePoints : CallPerpendicularLine(line, p)
  \/ calc.name = "none" /\ \E line \in Lines, p \in LinePoints : CallProject(line, p)

LineSpec == Init /\ [][LineNext]_vars

\* ---------------------------------------------------------------------------
\* Sizes
\* ---------------------------------------------------------------------------

\* new CGSize({ width, height })
Size(width, height) == [width |-> width, height |-> height]

\* size.aspectRatio
AspectRatio(s) == NDiv(s.width, s.height)

\* A number used as a condition: false for 0 and for NaN.
Truthy(a) == ~IsNaN(a) /\ a # Fin(0)

\* The argument { width?, height? } of set.
Partial(width, height) == [width |-> width, height |-> height]

\* The width of set with lockAspectRatio.
LockedWidth(s, partial) ==
  IF partial.width = Undefined /\ partial.height # Undefined
    THEN NMul(partial.height[1], AspectRatio(s))
    ELSE OrDefault(partial.width, s.width)

\* The height of set with lockAspectRatio.
LockedHeight(s, partial) ==
  IF partial.width # Undefined /\ partial.height = Undefined /\ Truthy(AspectRatio(s))
    THEN NDiv(partial.width[1], AspectRatio(s))
    ELSE OrDefault(partial.height, s.height)

\* The size after size.set(partial, lockAspectRatio).
SetOf(s, partial, lockAspectRatio) ==
  IF lockAspectRatio
    THEN Size(LockedWidth(s, partial), LockedHeight(s, partial))
    ELSE Size(OrDefault(partial.width, s.width), OrDefault(partial.height, s.height))

\* The widths and heights of the sizes, and those given to set.
SizeValues == {Fin(0), Fin(100), Fin(200), Fin(400)}

SetValues == {Undefined, Some(Fin(0)), Some(Fin(100)), Some(Fin(200)), Some(Fin(-400))}

\* CGSize.create(width, height)
SizeCreate(width, height) ==
  /\ size' = Size(width, height)
  /\ gop' = [NoGeoOp EXCEPT !.name = "CGSize.create", !.n = 1]
  /\ UNCHANGED <<mem, heap, born, op, nops, it, rect, point, zero, calc>>

\* size.set(partial, lockAspectRatio); the call records the size it was
\* made on.
SizeSet(partial, lockAspectRatio) ==
  /\ size' = SetOf(size, partial, lockAspectRatio)
  /\ calc' = Called("CGSize.set", <<partial, lockAspectRatio, size>>, SetOf(size, partial, lockAspectRatio))
  /\ UNCHANGED <<mem, heap, born, op, nops, it, rect, point, gop, zero>>

\* A size is created and set once.
SizeNext ==
  \/ gop.name = "none" /\ \E w \in SizeValues, h \in SizeValues : SizeCreate(w, h)
  \/ (gop.name = "CGSize.create" /\ calc.name = "none")
       /\ \E w \in SetValues, h \in SetValues, lock \in BOOLEAN : SizeSet(Partial(w, h), lock)

SizeSpec == Init /\ [][SizeNext]_vars

\* The arguments of the call of set, and the size before it.
SetPartial == calc.args[1]

SetLocked == calc.args[2]

SizeBefore == calc.args[3]

\* set was called with the lock and the width only, or the height only.
LockedWithWidth ==
  calc.name = "CGSize.set" /\ SetLocked /\ SetPartial.width # Undefined /\ SetPartial.height = Undefined

LockedWithHeight ==
  calc.name = "CGSize.set" /\ SetLocked /\ SetPartial.width = Undefined /\ SetPartial.height # Undefined

\* The two sizes have the same proportions: w1 * h2 = w2 * h1.
SameProportions(s1, s2) == NMul(s1.width, s2.height) = NMul(s2.width, s1.height)

\* With a truthy ratio the other dimension is derived from the ratio the
\* size had before the call.
DerivedFromRatio ==
  /\ (LockedWithWidth /\ Truthy(AspectRatio(SizeBefore))) =>
       size = Size(SetPartial.width[1], NDiv(SetPartial.width[1], AspectRatio(SizeBefore)))
  /\ (LockedWithHeight /\ Truthy(AspectRatio(SizeBefore))) =>
       size = Size(NMul(SetPartial.height[1], AspectRatio(SizeBefore)), SetPartial.height[1])
  /\ ((LockedWithWidth \/ LockedWithHeight)
        /\ NGt(SizeBefore.width, Fin(0)) /\ NGt(SizeBefore.height, Fin(0))) =>
       SameProportions(size, SizeBefore)

\* With a falsy ratio the dimension that was not supplied keeps its value.
SkippedWhenFalsy ==
  /\ (LockedWithWidth /\ ~Truthy(AspectRatio(SizeBefore))) =>
       size = Size(SetPartial.width[1], SizeBefore.height)
  /\ (LockedWithHeight /\ ~Truthy(AspectRatio(SizeBefore))) =>
       size = Size(SizeBefore.width, SetPartial.height[1])

\* C20: set(partial, true) with exactly one dimension supplied derives the
\* other from the aspect ratio the size had before the call (height = width
\* / ratio, width = height * ratio), so a size of positive width and height
\* keeps its aspect ratio; and when the ratio is falsy (0 or NaN) the lock is
\* skipped in both cases: the dimension not supplied keeps its value.
C20_SetLocked == DerivedFromRatio /\ SkippedWhenFalsy

\* ---------------------------------------------------------------------------
\* fromString and toString
\* ---------------------------------------------------------------------------

\* A JSON text, as its structure: the text null, the text of a number (its
\* characters), or an object text with its members in the order written,
\* each a key and the text of its value.
TextNull == [t |-> "null", chars |-> <<>>, members |-> <<>>]

TextNumber(chars) == [t |-> "number", chars |-> chars, members |-> <<>>]

TextObject(members) == [t |-> "object", chars |-> <<>>, members |-> members]

\* A value of the language: null, a number, or an object with its class and
\* its own properties.
ValueNull == [t |-> "null", n |-> NaN, class |-> "", fields |-> <<>>]

ValueNumber(n) == [t |-> "number", n |-> n, class |-> "", fields |-> <<>>]

ValueObject(class, fields) == [t |-> "object", n |-> NaN, class |-> class, fields |-> fields]

\* The keys written in an object text.
KeysOf(members) == {members[i][1] : i \in 1..Len(members)}

\* The last member written with the key.
LastWith(members, key) ==
  members[CHOOSE i \in 1..Len(members) :
            /\ members[i][1] = key
            /\ \A j \in (i + 1)..Len(members) : members[j][1] # key][2]

RECURSIVE JsonParse(_)
\* JSON.parse(text): a plain object (of class Object) for an object text.
JsonParse(text) ==
  IF text.t = "null" THEN ValueNull
  ELSE IF text.t = "number" THEN ValueNumber(ParseFloat(text.chars))
  ELSE ValueObject("Object",
         [key \in KeysOf(text.members) |-> JsonParse(LastWith(text.members, key))])

\* JSON.stringify of a number: null for NaN and the infinities.
StringifyNumber(n) == IF IsFin(n) THEN TextNumber(NumToString(n)) ELSE TextNull

\* `key in value` for an object.
HasKey(value, key) == key \in DOMAIN value.fields

\* value[key]: undefined when the object has no such property.
Get(value, key) == IF HasKey(value, key) THEN Some(value.fields[key]) ELSE Undefined

\* An exception of the given class was thrown, or a value was returned.
Thrown(class) == [threw |-> TRUE, out |-> class]

Return(value) == [threw |-> FALSE, out |-> value]

\* CGPoint.is(value): `"x" in null` is itself a TypeError, and a number is
\* not an object.
PointIs(value) == value.t = "object" /\ HasKey(value, "x") /\ HasKey(value, "y")

\* new CGPoint(value), new CGSize(value) and new CGLine(start, end), with
\* what the constructor read from the value.
NewPoint(value) ==
  ValueObject("CGPoint", [key \in {"x", "y"} |-> Get(value, key)])

NewSize(value) ==
  ValueObject("CGSize", [key \in {"width", "height"} |-> Get(value, key)])

NewLine(start, end) ==
  ValueObject("CGLine", [key \in {"start", "end"} |-> IF key = "start" THEN start ELSE end])

\* CGPoint.fromString(str)
PointFromString(str) ==
  IF ~PointIs(JsonParse(str)) THEN Thrown("TypeError")
  ELSE Return(NewPoint(JsonParse(str)))

\* CGSize.fromString(str): reading a property of null is a TypeError.
SizeFromString(str) ==
  IF JsonParse(str).t = "null" THEN Thrown("TypeError")
  ELSE Return(NewSize(JsonParse(str)))

\* value instanceof CGLine
InstanceOfLine(value) == value.t = "object" /\ value.class = "CGLine"

\* CGLine.fromString(str)
LineFromString(str) ==
  IF ~InstanceOfLine(JsonParse(str)) THEN Thrown("TypeError")
  ELSE Return(NewLine(Get(JsonParse(str), "start"), Get(JsonParse(str), "end")))

\* point.toString(): JSON.stringify({ x, y })
PointToString(p) == TextObject(<<<<"x", StringifyNumber(p.x)>>, <<"y", StringifyNumber(p.y)>>>>)

\* size.toString(): JSON.stringify(this.value)
SizeToString(s) ==
  TextObject(<<<<"width", StringifyNumber(s.width)>>, <<"height", StringifyNumber(s.height)>>>>)

\* line.toString(): JSON.stringify({ start: start.toJSON(), end: end.toJSON() })
LineToString(line) ==
  TextObject(<<<<"start", PointToString(line.start)>>, <<"end", PointToString(line.end)>>>>)

\* The texts given to fromString: null, a number, the object texts with some
\* or all of the keys of a type, and the texts toString writes.
TextNumbers == {Fin(0), Fin(150), Fin(-200)}

TextPoints == {Point(Fin(0), Fin(150)), Point(Fin(-200), Fin(0))}

MembersOf(key1, key2, texts) ==
  {<<>>} \cup {<<<<key1, v>>>> : v \in texts} \cup {<<<<key2, v>>>> : v \in texts}
    \cup {<<<<key1, v>>, <<key2, w>>>> : v \in texts, w \in texts}

Texts ==
  {TextNull, TextNumber(NumToString(Fin(150)))}
    \cup {TextObject(ms) : ms \in MembersOf("x", "y", {StringifyNumber(n) : n \in TextNumbers})}
    \cup {TextObject(ms) : ms \in MembersOf("width", "height", {StringifyNumber(n) : n \in TextNumbers})}
    \cup {TextObject(ms) : ms \in MembersOf("start", "end", {PointToString(p) : p \in TextPoints})}
    \cup {PointToString(p) : p \in TextPoints}
    \cup {SizeToString(Size(Fin(150), Fin(0)))}
    \cup {LineToString(Line(p, q)) : p \in TextPoints, q \in TextPoints}

\* The call of fromString of a type on a text, with what it returned or threw.
FromString(name, str, outcome) ==
  /\ calc.name = "none"
  /\ calc' = [name |-> name, args |-> <<str>>, out |-> outcome.out, threw |-> outcome.threw]
  /\ UNCHANGED <<mem, heap, born, op, nops, it, rect, point, gop, zero, size>>

\* A text is given to fromString of one of the three types.
TextNext ==
  \/ \E str \in Texts : FromString("CGPoint.fromString", str, PointFromString(str))
  \/ \E str \in Texts : FromString("CGSize.fromString", str, SizeFromString(str))
  \/ \E str \in Texts : FromString("CGLine.fromString", str, LineFromString(str))

TextSpec == Init /\ [][TextNext]_vars

\* The value the text of the call denotes.
Parsed == JsonParse(calc.args[1])

\* The text denotes an object with both keys.
WellShaped(key1, key2) == Parsed.t = "object" /\ HasKey(Parsed, key1) /\ HasKey(Parsed, key2)

\* The call threw a type error and returned no instance.
Rejected == calc.threw /\ calc.out = "TypeError"

\* The call returned an instance of the class with the two values of the text.
Accepted(class, key1, key2) ==
  /\ ~calc.threw
  /\ calc.out.class = class
  /\ calc.out.fields[key1] = Some(Parsed.fields[key1])
  /\ calc.out.fields[key2] = Some(Parsed.fields[key2])

\* fromString of the class accepts exactly the texts with both keys.
AcceptsWellShaped(name, class, key1, key2) ==
  calc.name = name =>
    IF WellShaped(key1, key2) THEN Accepted(class, key1, key2) ELSE Rejected

\* CGPoint.fromString accepts exactly the texts with x and y.
PointAcceptsWellShaped == AcceptsWellShaped("CGPoint.fromString", "CGPoint", "x", "y")

\* C19: for each of Point, Size and Line, fromString accepts exactly the
\* well-shaped texts: a text whose value lacks a required key (x or y; width
\* or height; start or end) raises a type error and gives no instance, and a
\* text of the required shape, such as the output of toString, gives an
\* instance with those field values.
C19_FromString ==
  /\ AcceptsWellShaped("CGPoint.fromString", "CGPoint", "x", "y")
  /\ AcceptsWellShaped("CGSize.fromString", "CGSize", "width", "height")
  /\ AcceptsWellShaped("CGLine.fromString", "CGLine", "start", "end")

\* ---------------------------------------------------------------------------
\* Operations that change a rectangle
\* ---------------------------------------------------------------------------

\* The rectangle of part_001 after inflate(value): the origin moved out by
\* value and each extent grown by twice the value.
InflateOfVariant(r, value) ==
  IF value = Fin(0) THEN r
  ELSE Rect(NSub(r.x, value), NSub(r.y, value),
            NAdd(r.width, NMul(Int2Num(2), value)), NAdd(r.height, NMul(Int2Num(2), value)))

\* The rectangle of cg-rect after inflate(delta): origin.add({ x: delta, y:
\* delta }) and size.set({ width: width - 1 * delta, height: height - 1 * delta }).
InflateOf(r, delta) ==
  Rect(NAdd(r.x, delta), NAdd(r.y, delta),
       NSub(r.width, NMul(Int2Num(1), delta)), NSub(r.height, NMul(Int2Num(1), delta)))

\* At most MaxEdits operations change the rectangle after it is created.
MaxEdits == 2

\* The rectangle was created by CGRect.create and can still be changed.
CanEdit == gop.name = "CGRect.create" /\ gop.n <= MaxEdits

\* The rectangle becomes r by the named operation; the call records its
\* argument and the rectangle it was made on.
Edit(name, arg, r) ==
  /\ rect' = r
  /\ gop' = [gop EXCEPT !.n = gop.n + 1]
  /\ calc' = Called(name, <<arg, rect>>, r)
  /\ UNCHANGED <<mem, heap, born, op, nops, it, point, zero, size>>

\* rect.inflate(delta), of cg-rect
RectInflate(delta) == Edit("CGRect.inflate", delta, InflateOf(rect, delta))

\* rect.inflate(value), of part_001
VariantInflate(value) == Edit("Rect.inflate", value, InflateOfVariant(rect, value))

\* The rectangles that are changed, and the amounts they are changed by.
EditRects ==
  {Rect(Fin(0), Fin(0), Fin(1000), Fin(1000)),
   Rect(Fin(-150), Fin(50), Fin(250), Fin(0)),
   Rect(Fin(40), Fin(260), Fin(-100), Fin(130))}

Deltas == {Fin(-100), Fin(0), Fin(50), Fin(200)}

\* The rectangle after shift(offset): `const { dx = 0, dy = 0 } = offset`
\* and origin.add({ x: dx, y: dy }).
ShiftOf(r, offset) ==
  Rect(NAdd(r.x, OrDefault(offset.dx, Fin(0))), NAdd(r.y, OrDefault(offset.dy, Fin(0))),
       r.width, r.height)

\* The rectangle after rect.size.set(partial) and after rect.size.flip().
SizeSetOf(r, partial) ==
  Rect(r.x, r.y, SetOf(Size(r.width, r.height), partial, FALSE).width,
       SetOf(Size(r.width, r.height), partial, FALSE).height)

FlipOf(r) == Rect(r.x, r.y, r.height, r.width)

\* Object.assign({}, a, b): the properties of a, then those of b over them.
ObjectAssign(a, b) ==
  [key \in DOMAIN a \cup DOMAIN b |-> IF key \in DOMAIN b THEN b[key] ELSE a[key]]

\* origin.value: an object of the point's x and y, made when it is read.
OriginValue(r) == [x |-> r.x, y |-> r.y]

\* rect.toJSON(): Object.assign({}, this.origin.value, this.size.value),
\* where size.value is the object the size was constructed with.
ToJSON(r, sizeValue) == ObjectAssign(OriginValue(r), sizeValue)

\* rect.shift(offset)
RectShift(offset) == Edit("CGRect.shift", offset, ShiftOf(rect, offset))

\* rect.pixelAlign(), as one of the operations that change the rectangle
RectAlign == Edit("CGRect.pixelAlign", Fin(0), PixelAlignRect(rect))

\* rect.size.set(partial)
RectSizeSet(partial) == Edit("CGSize.set", partial, SizeSetOf(rect, partial))

\* rect.size.flip()
RectSizeFlip == Edit("CGSize.flip", Fin(0), FlipOf(rect))

\* rect.toJSON(), which rect.value and rect.toString() return; the size was
\* constructed with the object given to the constructor of the rectangle,
\* which gop.rect0 holds.
RectToJSON ==
  /\ gop.name = "CGRect.create"
  /\ calc.name # "CGRect.toJSON"
  /\ calc' = Called("CGRect.toJSON", <<>>, ToJSON(rect, gop.rect0))
  /\ UNCHANGED <<mem, heap, born, op, nops, it, rect, point, gop, zero, size>>

\* The offsets of shift and the arguments of set.
Offsets ==
  {[dx |-> Some(Fin(150)), dy |-> Undefined], [dx |-> Some(Fin(-50)), dy |-> Some(Fin(100))]}

SizePartials == {Partial(Some(Fin(300)), Undefined), Partial(Some(Fin(0)), Some(Fin(50)))}

\* The argument of the last operation, and the rectangle before it.
EditArg == calc.args[1]

RectBefore == calc.args[2]

\* The origin moved out by delta, and for a positive delta and non-negative
\* extents the rectangle contains the one before.
MovedOutwards ==
  /\ rect.x = NSub(RectBefore.x, EditArg)
  /\ rect.y = NSub(RectBefore.y, EditArg)
  /\ (NGt(EditArg, Fin(0)) /\ NonNegative(RectBefore)) => ContainsRect(rect, RectBefore)

\* inflate of part_001 moves the origin and the edges outwards.
VariantMovesOutwards == calc.name = "Rect.inflate" => MovedOutwards

\* C21: in every rectangle variant of the source, inflate(delta) moves the
\* origin to (x - delta, y - delta) and the edges outwards: for delta > 0 and
\* a rectangle with non-negative extents the inflated rectangle contains the
\* original.
C21_Inflate == calc.name \in {"CGRect.inflate", "Rect.inflate"} => MovedOutwards

\* A rectangle is created and changed.
EditNext ==
  \/ gop.name = "none" /\ \E r \in EditRects : RectCreate(r.x, r.y, r.width, r.height)
  \/ CanEdit /\ \E delta \in Deltas : RectInflate(delta)
  \/ CanEdit /\ \E value \in Deltas : VariantInflate(value)
  \/ CanEdit /\ \E offset \in Offsets : RectShift(offset)
  \/ CanEdit /\ RectAlign
  \/ CanEdit /\ \E partial \in SizePartials : RectSizeSet(partial)
  \/ CanEdit /\ RectSizeFlip
  \/ RectToJSON

EditSpec == Init /\ [][EditNext]_vars

\* C24: after any sequence of operations that change a rectangle (shift,
\* inflate, pixelAlign, and set and flip of its size), the serialized form
\* of the rectangle is the flat object of its current x, y, width and height.
C24_Serialized ==
  calc.name = "CGRect.toJSON" =>
    calc.out = [x |-> rect.x, y |-> rect.y, width |-> rect.width, height |-> rect.height]

\* The serialized form is the object the rectangle was constructed with.
SerializedAsConstructed == calc.name = "CGRect.toJSON" => calc.out = gop.rect0

\* ---------------------------------------------------------------------------
\* The closest of a list of points
\* ---------------------------------------------------------------------------

\* a === b of two numbers: NaN equals nothing.
StrictEquals(a, b) == ~IsNaN(a) /\ ~IsNaN(b) /\ a = b

\* The last index of the value in the list, from 0, or -1: not indexOf.
LastIndexOf(values, value) ==
  IF \E i \in 1..Len(values) : StrictEquals(values[i], value)
    THEN (CHOOSE i \in 1..Len(values) :
            /\ StrictEquals(values[i], value)
            /\ \A j \in (i + 1)..Len(values) : ~StrictEquals(values[j], value)) - 1
    ELSE -1

\* values.indexOf(value): the first index of the value, from 0, or -1.
IndexOf(values, value) ==
  IF \E i \in 1..Len(values) : StrictEquals(values[i], value)
    THEN (CHOOSE i \in 1..Len(values) :
            /\ StrictEquals(values[i], value)
            /\ \A j \in 1..(i - 1) : ~StrictEquals(values[j], value)) - 1
    ELSE -1

\* points.map((point) => CGPoint.distance(point, pointToCheck))
Distances(points, pointToCheck) ==
  [i \in 1..Len(points) |-> Distance(points[i], pointToCheck)]

\* The index found by the selector of closest.
ClosestIndex(points, pointToCheck) ==
  IndexOf(Distances(points, pointToCheck), MathMinOf(Distances(points, pointToCheck)))

\* Point.closest(...points)(pointToCheck), of part_002: the index.
ClosestOfVariant(points, pointToCheck) == ClosestIndex(points, pointToCheck)

\* CGPoint.closest(...points)(pointToCheck): points[index], undefined when
\* the index is -1.
Closest(points, pointToCheck) ==
  IF ClosestIndex(points, pointToCheck) = -1 THEN Undefined
  ELSE Some(points[ClosestIndex(points, pointToCheck) + 1])

\* At most MaxCandidates points are given to closest.
MaxCandidates == 3

\* The candidates and the points they are compared with.
Candidates ==
  {Point(Fin(0), Fin(0)), Point(Fin(200), Fin(0)), Point(Fin(0), Fin(200)),
   Point(Fin(100), Fin(100)), Point(NaN, Fin(0))}

CandidateLists == UNION {[1..n -> Candidates] : n \in 1..MaxCandidates}

Queries ==
  {Point(Fin(100), Fin(0)), Point(Fin(0), Fin(0)), Point(Fin(200), Fin(200)),
   Point(Fin(50), Fin(150)), Point(Fin(300), Fin(-100))}

\* CGPoint.closest(...points)(q)
CallClosest(points, q) ==
  /\ calc' = Called("CGPoint.closest", <<points, q>>, Closest(points, q))
  /\ UNCHANGED <<mem, heap, born, op, nops, it, rect, point, gop, zero, size>>

\* Point.closest(...points)(q)
CallClosestOfVariant(points, q) ==
  /\ calc' = Called("Point.closest", <<points, q>>, ClosestOfVariant(points, q))
  /\ UNCHANGED <<mem, heap, born, op, nops, it, rect, point, gop, zero, size>>

\* A list of points is given to closest, and a point to the selector.
ClosestNext ==
  \/ calc.name = "none" /\ \E ps \in CandidateLists, q \in Queries : CallClosest(ps, q)
  \/ calc.name = "none" /\ \E ps \in CandidateLists, q \in Queries : CallClosestOfVariant(ps, q)

ClosestSpec == Init /\ [][ClosestNext]_vars

\* The candidates of the call and the point given to the selector.
Given == calc.args[1]

Query == calc.args[2]

\* Candidate i is at the least distance, and no candidate before it is.
FirstNearest(i) ==
  /\ \A j \in 1..Len(Given) : NLe(Distance(Given[i], Query), Distance(Given[j], Query))
  /\ \A j \in 1..(i - 1) : NGt(Distance(Given[j], Query), Distance(Given[i], Query))

\* The selector returned the first of the nearest candidates: the candidate
\* itself (CGPoint) or its index (Point).
PicksFirstNearest ==
  /\ calc.name = "CGPoint.closest" =>
       \E i \in 1..Len(Given) : FirstNearest(i) /\ calc.out = Some(Given[i])
  /\ calc.name = "Point.closest" =>
       \E i \in 1..Len(Given) : FirstNearest(i) /\ calc.out = i - 1

\* Every coordinate of the candidates is a finite number.
OrdinaryCandidates ==
  \A i \in 1..Len(Given) : IsFin(Given[i].x) /\ IsFin(Given[i].y)

\* C22 as stated: for every non-empty list of candidates and every q, the
\* selector of closest picks a candidate at the least distance from q, the
\* one with the smallest index when several are.
C22_ClosestOfAny ==
  calc.name \in {"CGPoint.closest", "Point.closest"} => PicksFirstNearest

\* C22, amended: for every non-empty list of candidates whose coordinates
\* are ordinary numbers and every such q, the selector of closest picks a
\* candidate whose distance to q is <= that of every other candidate, the
\* one with the smallest index when several are at that distance (CGPoint
\* returns the candidate, Point its index).
C22_Closest ==
  (calc.name \in {"CGPoint.closest", "Point.closest"} /\ OrdinaryCandidates) =>
    PicksFirstNearest

\* Three candidates were given, the second and the third at the same least
\* distance from q, and the second was picked.
C22_Witness ==
  /\ calc.name = "CGPoint.closest"
  /\ OrdinaryCandidates
  /\ Len(Given) = 3
  /\ Given[2] # Given[3]
  /\ Distance(Given[2], Query) = Distance(Given[3], Query)
  /\ NGt(Distance(Given[1], Query), Distance(Given[2], Query))
  /\ calc.out = Some(Given[2])

\* ---------------------------------------------------------------------------
\* CGPoint.zero and CGPoint.init
\* ---------------------------------------------------------------------------

\* C23: in every state reachable through the public operations of Point, Rect
\* and Line, CGPoint.zero is the point with values (0, 0), and CGPoint.init()
\* returns a new point with location (0, 0).
C23_ZeroIsOrigin ==
  /\ zero = ZeroPoint
  /\ calc.name = "CGPoint.init" => calc.out = ZeroPoint

\* CGPoint.init() returns a point with the values CGPoint.zero has.
InitCopiesZero == calc.name = "CGPoint.init" => calc.out = zero

\* ---------------------------------------------------------------------------
\* The values of pixelAlign
\* ---------------------------------------------------------------------------

\* The number is an integer.
IsInteger(a) == IsFin(a) /\ a.v % Scale = 0

\* The rectangle was created and aligned once: gop.rect0 is the rectangle
\* before pixelAlign.
AlignedOnce == gop.name = "CGRect.pixelAlign" /\ gop.n = 1

\* C25: after pixelAlign on (x, y, w, h): x' = round(x), y' = round(y),
\* width' = max(round(x + w) - round(x), 0) and height' = max(round(y + h) -
\* round(y), 0); so all four are integers, width' >= 0 and height' >= 0, and
\* when w >= 0 and h >= 0 the far edges are the rounded far edges of the
\* original: maxX' = round(x + w) and maxY' = round(y + h).
C25_PixelAlignValues ==
  AlignedOnce =>
    /\ rect.x = MathRound(gop.rect0.x)
    /\ rect.y = MathRound(gop.rect0.y)
    /\ rect.width = MathMax(NSub(MathRound(MaxX(gop.rect0)), MathRound(gop.rect0.x)), Fin(0))
    /\ rect.height = MathMax(NSub(MathRound(MaxY(gop.rect0)), MathRound(gop.rect0.y)), Fin(0))
    /\ IsInteger(rect.x) /\ IsInteger(rect.y) /\ IsInteger(rect.width) /\ IsInteger(rect.height)
    /\ NGe(rect.width, Fin(0)) /\ NGe(rect.height, Fin(0))
    /\ NonNegative(gop.rect0) =>
         /\ MaxX(rect) = MathRound(MaxX(gop.rect0))
         /\ MaxY(rect) = MathRound(MaxY(gop.rect0))

\* A rectangle of positive extents with an origin and a far edge between
\* integers was aligned, and its width changed.
C25_Witness ==
  /\ AlignedOnce
  /\ NGt(gop.rect0.width, Fin(0)) /\ NGt(gop.rect0.height, Fin(0))
  /\ ~IsInteger(gop.rect0.x)
  /\ ~IsInteger(MaxX(gop.rect0))
  /\ rect.width # gop.rect0.width
  /\ MaxX(rect) = MathRound(MaxX(gop.rect0))

\* The point was created and aligned once: gop.point0 is the point before
\* pixelAlign.
PointAlignedOnce == gop.name = "CGPoint.pixelAlign" /\ gop.n = 1

\* C26 as stated: pixelAlign replaces each component by the nearest integer,
\* a component halfway between two integers going to the even one.
C26_TiesToEven ==
  PointAlignedOnce =>
    /\ point.x = RoundHalfEven(gop.point0.x)
    /\ point.y = RoundHalfEven(gop.point0.y)

\* b is the integer nearest to a, the larger one when a is halfway between
\* two integers.
NearestHalfUp(a, b) ==
  /\ IsInteger(b)
  /\ 2 * (b.v - a.v) <= Scale
  /\ 2 * (b.v - a.v) > -Scale

\* C26, amended: pixelAlign replaces each component by the nearest integer,
\* and a component halfway between two integers goes to the larger one
\* (towards +Infinity: 0.5 -> 1, 1.5 -> 2, 2.5 -> 3, -0.5 -> 0, -1.5 -> -1).
C26_PixelAlignPoint ==
  PointAlignedOnce =>
    /\ NearestHalfUp(gop.point0.x, point.x)
    /\ NearestHalfUp(gop.point0.y, point.y)

\* A point with x halfway between an even and an odd integer was aligned,
\* and x went to the odd one above.
C26_Witness ==
  /\ PointAlignedOnce
  /\ 2 * (gop.point0.x.v % Scale) = Scale
  /\ point.x = NAdd(gop.point0.x, Fin(Scale \div 2))
  /\ (point.x.v \div Scale) % 2 # 0

\* ---------------------------------------------------------------------------
\* The intersection of rectangles that do not intersect
\* ---------------------------------------------------------------------------

\* intersection was called on two rectangles of non-negative extents that
\* do not intersect.
IntersectionOfDisjoint ==
  /\ calc.name = "CGRect.intersection"
  /\ NonNegative(rect) /\ NonNegative(Other)
  /\ ~Intersects(rect, Other)

\* C27 as stated: for a and b of non-negative width and height that do not
\* intersect, intersection(a, b) has a negative width or a negative height.
C27_NegativeExtent ==
  IntersectionOfDisjoint =>
    (NLt(calc.out.width, Fin(0)) \/ NLt(calc.out.height, Fin(0)))

\* C27, amended: for a and b of ordinary (finite) coordinates and
\* non-negative width and height that do not intersect, intersection(a, b)
\* has a width or a height that is negative or zero (zero when the
\* rectangles touch or one of them has no extent).
C27_NoPositiveExtent ==
  (IntersectionOfDisjoint /\ AllOrdinary(<<rect, Other>>)) =>
    (NLe(calc.out.width, Fin(0)) \/ NLe(calc.out.height, Fin(0)))

\* Two rectangles of positive extents with a gap between them on the X
\* axis were intersected: the width of the result is negative.
C27_Witness ==
  /\ IntersectionOfDisjoint
  /\ NGt(rect.width, Fin(0)) /\ NGt(rect.height, Fin(0))
  /\ NGt(Other.width, Fin(0)) /\ NGt(Other.height, Fin(0))
  /\ NLt(MaxX(rect), MinX(Other))
  /\ NLt(calc.out.width, Fin(0))

\* ---------------------------------------------------------------------------
\* Points and lines as objects: subtract, clone, shift, setStart, setEnd
\* ---------------------------------------------------------------------------

\* The reference of the shared point CGPoint.zero; the others are indexes of
\* mem.pts.
ZeroRef == 0

PointRefs == 0..Len(mem.pts)

\* The fields of every point object, by reference.
Cells == [i \in PointRefs |-> IF i = ZeroRef THEN zero ELSE mem.pts[i]]

\* this.x = -this.x; this.y = -this.y
NegateAt(f, p) == [f EXCEPT ![p] = Point(NNeg(f[p].x), NNeg(f[p].y))]

\* this.x += point.x; this.y += point.y, the point read when it is added
AddAt(f, a, p) == [f EXCEPT ![a] = Point(NAdd(f[a].x, f[p].x), NAdd(f[a].y, f[p].y))]

\* subtract(point): this.add(point.negate())
SubtractAt(f, a, p) == AddAt(NegateAt(f, p), a, p)

MaxObjects == 4

MaxLines == 3

MaxSteps == 4

ObjectValues == {Point(Fin(100), Fin(200)), Point(Fin(300), Fin(0))}

ObjectOffsets == {[dx |-> Fin(100), dy |-> Fin(0)], [dx |-> Fin(0), dy |-> Fin(-100)]}

\* The fields written back to the objects, and the call recorded.
Store(f, pts, lines, name, args) ==
  /\ zero' = f[ZeroRef]
  /\ mem' = [pts |-> [i \in 1..Len(pts) |-> f[i]], lines |-> lines, n |-> mem.n + 1]
  /\ calc' = Called(name, args, Undefined)
  /\ UNCHANGED <<heap, born, op, nops, it, rect, point, gop, size>>

WithPoint(f, v) == [i \in 0..(Len(mem.pts) + 1) |-> IF i <= Len(mem.pts) THEN f[i] ELSE v]

CanStep == mem.n < MaxSteps

\* new CGPoint(value)
PointNew(v) ==
  /\ Len(mem.pts) < MaxObjects
  /\ Store(WithPoint(Cells, v), Append(mem.pts, v), mem.lines, "CGPoint", <<v>>)

\* a.subtract(p): the call records the two references and the fields of
\* both before the call.
PointSubtract(a, p) ==
  Store(SubtractAt(Cells, a, p), mem.pts, mem.lines, "CGPoint.subtract",
        <<a, p, Cells[a], Cells[p]>>)

\* after a.subtract(p), a is (a.x - p.x, a.y - p.y) of the values before it
Difference(a0, p0) == Point(NSub(a0.x, p0.x), NSub(a0.y, p0.y))

\* C28: a.subtract(p) sets a to (a.x - p.x, a.y - p.y) and leaves p's x and
\* y as they were before the call, for every pair of points a and p, p being
\* another point, a itself (the result is then (0, 0)) or the shared zero.
C28_Subtract ==
  calc.name = "CGPoint.subtract" =>
    /\ Cells[calc.args[1]] = Difference(calc.args[3], calc.args[4])
    /\ calc.args[2] # calc.args[1] => Cells[calc.args[2]] = calc.args[4]

\* What holds of the code: the receiver has the difference when the argument
\* is another object, and the argument is left negated.
SubtractNegatesArgument ==
  (calc.name = "CGPoint.subtract" /\ calc.args[2] # calc.args[1]) =>
    /\ Cells[calc.args[1]] = Difference(calc.args[3], calc.args[4])
    /\ Cells[calc.args[2]] = Point(NNeg(calc.args[4].x), NNeg(calc.args[4].y))

LineRefs == 1..Len(mem.lines)

\* new CGLine(start, end), of two point objects
LineObject(start, end, from) == [start |-> start, end |-> end, from |-> from]

\* The start and end coordinates of a line, read through its references.
EndsOf(f, line) == <<f[line.start], f[line.end]>>

LineEnds == [m \in LineRefs |-> EndsOf(Cells, mem.lines[m])]

\* CGLine.create(start, end): new CGLine(new CGPoint(start), new CGPoint(end))
LineCreate(start, end) ==
  /\ Len(mem.pts) + 2 <= MaxObjects
  /\ Len(mem.lines) < MaxLines
  /\ Store([i \in 0..(Len(mem.pts) + 2) |->
              IF i <= Len(mem.pts) THEN Cells[i]
              ELSE IF i = Len(mem.pts) + 1 THEN start ELSE end],
           mem.pts \o <<start, end>>,
           Append(mem.lines, LineObject(Len(mem.pts) + 1, Len(mem.pts) + 2, 0)),
           "CGLine.create", <<start, end>>)

\* clone(): new CGLine(this.start, this.end), the same two point objects
CloneLine(line, from) == LineObject(line.start, line.end, from)

LineClone(l) ==
  /\ Len(mem.lines) < MaxLines
  /\ Store(Cells, mem.pts, Append(mem.lines, CloneLine(mem.lines[l], l)),
           "CGLine.clone", <<l>>)

\* this.start.x += dx; this.start.y += dy
ShiftAt(f, p, offset) ==
  [f EXCEPT ![p] = Point(NAdd(f[p].x, offset.dx), NAdd(f[p].y, offset.dy))]

\* shift(offset): the start object is moved, then the end object
Shift(f, line, offset) == ShiftAt(ShiftAt(f, line.start, offset), line.end, offset)

LineShift(l, offset) ==
  Store(Shift(Cells, mem.lines[l], offset), mem.pts, mem.lines,
        "CGLine.shift", <<l, offset, LineEnds>>)

\* setStart(start): this.start = start
SetStart(line, start) == [line EXCEPT !.start = start]

\* setEnd(end): this.end = end
SetEnd(line, end) == [line EXCEPT !.end = end]

\* A point object that no line refers to: one the caller constructed for
\* the call.
Unshared(p) ==
  /\ p # ZeroRef
  /\ \A m \in LineRefs : mem.lines[m].start # p /\ mem.lines[m].end # p

LineSetStart(l, p) ==
  /\ Unshared(p)
  /\ Store(Cells, mem.pts, [mem.lines EXCEPT ![l] = SetStart(mem.lines[l], p)],
           "CGLine.setStart", <<l, p, LineEnds>>)

LineSetEnd(l, p) ==
  /\ Unshared(p)
  /\ Store(Cells, mem.pts, [mem.lines EXCEPT ![l] = SetEnd(mem.lines[l], p)],
           "CGLine.setEnd", <<l, p, LineEnds>>)

ObjectNext ==
  \/ CanStep /\ \E v \in ObjectValues : PointNew(v)
  \/ CanStep /\ \E a, p \in PointRefs : PointSubtract(a, p)
  \/ CanStep /\ \E start, end \in ObjectValues : LineCreate(start, end)
  \/ CanStep /\ \E l \in LineRefs : LineClone(l)
  \/ CanStep /\ \E l \in LineRefs, offset \in ObjectOffsets : LineShift(l, offset)
  \/ CanStep /\ \E l \in LineRefs, p \in PointRefs : LineSetStart(l, p)
  \/ CanStep /\ \E l \in LineRefs, p \in PointRefs : LineSetEnd(l, p)

ObjectSpec == Init /\ [][ObjectNext]_vars

\* One line is the clone of the other.
CloneOf(l, m) ==
  l # m /\ (mem.lines[m].from = l \/ mem.lines[l].from = m)

LineCalls == {"CGLine.shift", "CGLine.setStart", "CGLine.setEnd"}

\* C29: a line produced by clone() is independent of the line it was cloned
\* from: a shift, setStart or setEnd applied to one of the two leaves the
\* start and end coordinates of the other unchanged.
C29_CloneIndependent ==
  calc.name \in LineCalls =>
    \A m \in LineRefs :
      CloneOf(calc.args[1], m) => LineEnds[m] = calc.args[3][m]

\* What holds of the code: setStart and setEnd on one of the two leave the
\* other's coordinates unchanged; shift does not.
SetLeavesCloneUnchanged ==
  calc.name \in {"CGLine.setStart", "CGLine.setEnd"} =>
    \A m \in LineRefs :
      CloneOf(calc.args[1], m) => LineEnds[m] = calc.args[3][m]

\* ---------------------------------------------------------------------------
\* CFNumericRange: toPercent and fromPercent, one after the other
\* ---------------------------------------------------------------------------

\* toPercent(): ((this.valueOf() - this.min) * 100) / (this.max - this.min)
ToPercent(r) ==
  NDiv(NMul(NSub(ValueOf(r), r.min), Int2Num(100)), NSub(r.max, r.min))

\* The ranges the conversions are tried on have max > min: min 0, 0.5 and
\* max 1, 2.5, with the values 0, 0.25, ..., 1.5; every quotient is exact.
TripMins == {Int2Num(0), Half}

TripMaxs == {Int2Num(1), NMul(Int2Num(5), Half)}

TripValues == {Some(NumV(NMul(Int2Num(k), Quarter))) : k \in 0..6}

\* percent: -0.5, 0, 0.5, 1
TripPercents == {NNeg(Half), Int2Num(0), Half, Int2Num(1)}

\* r.toPercent() on the one instance
RangeToPercent ==
  /\ calc' = Called("CFNumericRange.toPercent", <<1>>, ToPercent(heap[1]))
  /\ UNCHANGED <<mem, heap, born, op, nops, it, rect, point, gop, zero, size>>

\* CFNumericRange.fromPercent(r.toPercent(), { min: r.min, max: r.max })
FromPercentOfToPercent ==
  FromPercent(calc.out, [NoOptions EXCEPT !.min = Some(heap[1].min),
                                          !.max = Some(heap[1].max)])

TripNext ==
  \/ heap = <<>> /\ \E mn \in TripMins, mx \in TripMaxs, va \in TripValues :
                      Create(mn, mx, va)
  \/ heap = <<>> /\ \E p \in TripPercents, mn \in TripMins, mx \in TripMaxs :
                      FromPercent(p, [NoOptions EXCEPT !.min = Some(mn), !.max = Some(mx)])
  \/ Len(heap) = 1 /\ calc.name = "none" /\ RangeToPercent
  \/ Len(heap) = 1 /\ op.name = "create" /\ calc.name = "CFNumericRange.toPercent"
       /\ FromPercentOfToPercent

TripSpec == Init /\ [][TripNext]_vars

\* fromPercent(r.toPercent(), { min: r.min, max: r.max }) was called: r is
\* heap[1], the new range heap[2].
ValueConvertedBack == Len(heap) = 2 /\ op.name = "fromPercent"

\* fromPercent(p, { min, max }).toPercent() was called: p is op.num[1].
PercentConvertedBack ==
  Len(heap) = 1 /\ op.name = "fromPercent" /\ calc.name = "CFNumericRange.toPercent"

\* C30: toPercent and fromPercent are inverse conversions: for every range r
\* with max > min, fromPercent(r.toPercent(), {min: r.min, max: r.max})
\* has the value of r, and for every p, fromPercent(p, {min, max}).toPercent()
\* is p.
C30_Inverse ==
  /\ ValueConvertedBack => ValueOf(heap[2]) = ValueOf(heap[1])
  /\ PercentConvertedBack => calc.out = op.num[1]

\* What holds of the code: toPercent is on the scale 0..100 and fromPercent
\* takes a fraction, so the percent that comes back is 100 times the one
\* that went in.
HundredTimesPercent ==
  PercentConvertedBack => calc.out = NMul(op.num[1], Int2Num(100))

\* No number of these runs is beyond the largest the model holds.
TripWithinNumbers ==
  /\ \A i \in 1..Len(heap) : IsFin(ValueOf(heap[i]))
  /\ calc.name = "CFNumericRange.toPercent" => IsFin(calc.out)

====
